---- MODULE Spec2Model ----
(***************************************************************************)
(* Motion resampler of the USB-to-BLE HID bridge (ring buffer variant):    *)
(* mouse_accumulator_add / ring_push (USB task), mouse_accumulator_try_send*)
(* (esp_timer task) and mouse_accumulator_clear (BLE event task).          *)
(* Every critical section of the source is one atomic step; the code       *)
(* between two critical sections is a step of its own.                     *)
(***************************************************************************)
EXTENDS Integers, Sequences, FiniteSets, TLC

(* ------------------------------ bounds --------------------------------- *)
\* log2 of the modelled ring capacity (the firmware builds with 128 = 2^7)
RingBits == 1
\* number of mouse_accumulator_add calls in one behaviour
MaxPushes == 3
\* number of failing sink sends in one behaviour
MaxFailures == 1
\* number of BLE disconnects in one behaviour
MaxDisconnects == 1
\* largest value of the microsecond clock
MaxTime == 1
\* number of USB input reports in one behaviour with an attached device
MaxReports == 2

(* --------------------------- program constants ------------------------- *)
EVENT_FLAG_BUTTON_CHANGED == 1

(* ----------------------------- C arithmetic ---------------------------- *)
RECURSIVE BitAnd(_, _)
BitAnd(a, b) ==
  IF a = 0 \/ b = 0 THEN 0
  ELSE (IF a % 2 = 1 /\ b % 2 = 1 THEN 1 ELSE 0) + 2 * BitAnd(a \div 2, b \div 2)

ToU8(x) == x % 256
\* the low 16 bits of a C int (two's complement), as a natural number
LowBits16(x) == x % 65536
ToInt8(x) == LET m == x % 256 IN IF m >= 128 THEN m - 256 ELSE m
ToInt16(x) == LET m == x % 65536 IN IF m >= 32768 THEN m - 65536 ELSE m
\* int32_t arithmetic: the model's integers are 32 bits wide as well, and the
\* model checker stops with an error on an overflow instead of wrapping
ToInt32(x) == x

clamp_s32(value, min_val, max_val) ==
  IF value < min_val THEN min_val
  ELSE IF value > max_val THEN max_val
  ELSE value

(* --------------------------- input profiles ---------------------------- *)
In(dx, dy, wheel, buttons) == [dx |-> dx, dy |-> dy, wheel |-> wheel, buttons |-> buttons]

\* A profile is the build's ring size and the reports the mouse may produce:
\* inputs[n] is the set of reports the n-th call of mouse_accumulator_add may
\* carry, the last set standing for every later call.
\* general traffic: a button edge, idle reports, extreme and saturating motion
GenProfile == [ring_bits |-> RingBits,
               inputs |-> << {In(0, 0, 0, 1), In(-32768, 20000, -128, 0)} >>]
\* saturation: pushes of dx = 20000 (two make sum_dx = 40000), wheel = 100
SatProfile == [ring_bits |-> RingBits,
               inputs |-> << {In(20000, 0, 100, 0)} >>]
\* retry: a window of dx = 100, then pushes of +3 and +4
RetryProfile == [ring_bits |-> RingBits + 1,
                 inputs |-> << {In(100, 0, 0, 0)}, {In(3, 0, 0, 0)}, {In(4, 0, 0, 0)} >>]
\* button edge: a press, then reports that repeat the pressed state
ButtonProfile == [ring_bits |-> RingBits,
                  inputs |-> << {In(0, 0, 0, 1)} >>]

(* ------------------------------ USB devices ---------------------------- *)
\* a device: its report descriptor, the protocol field of its interface and
\* the input reports it may send
Device(name, desc, proto, reports) ==
  [name |-> name, desc |-> desc, proto |-> proto, reports |-> reports]

\* a boot-protocol mouse whose descriptor cannot be read
BootMouse ==
  Device("BootMouse", <<>>, "HID_PROTOCOL_MOUSE",
         {<<1, 5, 251>>, <<0, 0, 0>>, <<7, 128, 127>>, <<24, 5, 0>>})

\* the descriptors below are written item by item, each item as
\* parse_hid_report_descriptor_layouts reads it: global tag 7 (0x75) is
\* report_size, tag 8 (0x85) report_count, tag 9 (0x95) the report id, and an
\* Input item (0x81) with bit 0 set is a field

\* Usage Page 1, Usage Minimum 0x30, a 4-byte Usage Maximum 0xFFFFFFFF,
\* report_size 8, Input
LoopMouse ==
  Device("LoopMouse",
         <<5, 1,  25, 48,  43, 255, 255, 255, 255,  117, 8,  129, 3>>,
         "HID_PROTOCOL_MOUSE", {<<0, 0, 0>>})

\* three buttons, then X and Y by Usage Minimum / Maximum with report_count 1
ShortMouse ==
  Device("ShortMouse",
         <<5, 9,  117, 1,  133, 3,  129, 3,
           5, 1,  25, 48,  41, 49,  117, 8,  133, 1,  129, 3>>,
         "HID_PROTOCOL_MOUSE", {<<0, 0, 0>>})

\* three buttons and five constant bits, X and Y of 8 bits, a wheel of 8
\* bits: reports of 4 bytes; the descriptor ends in a truncated 4-byte item
ParserMouse ==
  Device("ParserMouse",
         <<5, 9,  117, 1,  133, 3,  129, 3,
           133, 5,  129, 0,
           5, 1,  25, 48,  41, 49,  117, 8,  133, 2,  129, 3,
           9, 56,  133, 1,  129, 3,
           43, 255, 255>>,
         "HID_PROTOCOL_MOUSE", {<<1, 5, 251, 1>>, <<0, 5, 251, 1>>})

\* the same fields under report id 2: reports of 5 bytes
IdMouse ==
  Device("IdMouse",
         <<149, 2,
           5, 9,  117, 1,  133, 3,  129, 3,
           133, 5,  129, 0,
           5, 1,  25, 48,  41, 49,  117, 8,  133, 2,  129, 3,
           9, 56,  133, 1,  129, 3>>,
         "HID_PROTOCOL_MOUSE", {<<2, 1, 5, 251, 1>>})

\* the descriptor of ParserMouse on an interface whose protocol field says keyboard
KeyboardProtoMouse ==
  Device("KeyboardProtoMouse", ParserMouse.desc, "HID_PROTOCOL_KEYBOARD",
         {<<1, 5, 251, 1>>})

\* Usage Page (Generic Desktop), Usage (Mouse), Collection (Application),
\* Usage (X), End Collection, Usage (Keyboard), Collection (Application),
\* Usage Page (Keyboard), Report Count 6, Input, End Collection
ComboDescriptor ==
  <<5, 1,  9, 2,  161, 1,  9, 48,  192,
    9, 6,  161, 1,  5, 7,  149, 6,  129, 0,  192>>
ComboOnKeyboard ==
  Device("ComboOnKeyboard", ComboDescriptor, "HID_PROTOCOL_KEYBOARD",
         {<<0, 0, 4, 0, 0, 0, 0, 0>>})
ComboOnMouse ==
  Device("ComboOnMouse", ComboDescriptor, "HID_PROTOCOL_MOUSE", {<<1, 5, 251>>})

\* Usage Page (Generic Desktop), Usage (Mouse), Collection (Application),
\* Usage (Keyboard), Usage Page (Keyboard), Report Count 3, Input, End Collection
KeyboardUsageInMouse ==
  Device("KeyboardUsageInMouse",
         <<5, 1,  9, 2,  161, 1,  9, 6,  5, 7,  149, 3,  129, 0,  192>>,
         "HID_PROTOCOL_KEYBOARD", {<<0, 0, 4, 0, 0, 0, 0, 0>>})

\* Usage Page (Generic Desktop), Usage (Keyboard), Collection (Application),
\* Usage Page (Keyboard), Report Count 6, Input, End Collection
Keyboard ==
  Device("Keyboard", <<5, 1,  9, 6,  161, 1,  5, 7,  149, 6,  129, 0,  192>>,
         "HID_PROTOCOL_KEYBOARD", {<<0, 0, 4, 0, 0, 0, 0, 0>>})

\* the boot mouse descriptor of HID 1.11 (appendix E.10), encoded as HID 1.11
\* defines the items: Usage Page (Generic Desktop), Usage (Mouse), Collection
\* (Application), Usage (Pointer), Collection (Physical), Usage Page (Button),
\* Usage Minimum 1, Usage Maximum 3, Logical Minimum 0, Logical Maximum 1,
\* Report Count 3, Report Size 1, Input (Data, Variable, Absolute),
\* Report Count 1, Report Size 5, Input (Constant), Usage Page (Generic
\* Desktop), Usage (X), Usage (Y), Logical Minimum -127, Logical Maximum 127,
\* Report Size 8, Report Count 2, Input (Data, Variable, Relative),
\* End Collection, End Collection
StandardMouse ==
  Device("StandardMouse",
         <<5, 1,  9, 2,  161, 1,  9, 1,  161, 0,
           5, 9,  25, 1,  41, 3,  21, 0,  37, 1,  149, 3,  117, 1,  129, 2,
           149, 1,  117, 5,  129, 1,
           5, 1,  9, 48,  9, 49,  21, 129,  37, 127,  117, 8,  149, 2,  129, 6,
           192,  192>>,
         "HID_PROTOCOL_MOUSE", {<<1, 5, 251>>})

\* Usage Page (Generic Desktop), Usage (Mouse), Collection (Application),
\* three buttons and five constant bits, then report_size 8, report_count 2,
\* Usage (X), Usage (Y), Input (Variable), End Collection
BareUsageMouse ==
  Device("BareUsageMouse",
         <<5, 1,  9, 2,  161, 1,
           5, 9,  117, 1,  133, 3,  129, 3,
           133, 5,  129, 0,
           5, 1,  117, 8,  133, 2,  9, 48,  9, 49,  129, 3,
           192>>,
         "HID_PROTOCOL_MOUSE", {<<1, 5, 251>>})

\* a mouse whose reports start with a constant byte: Usage Page (Generic
\* Desktop), Usage (Mouse), Collection (Application), eight constant bits, three
\* buttons and five constant bits, X and Y of 8 bits, a wheel of 8 bits, End
\* Collection; reports of 5 bytes
PaddedMouse ==
  Device("PaddedMouse",
         <<5, 1,  9, 2,  161, 1,
           117, 8,  133, 1,  129, 0,
           5, 9,  117, 1,  133, 3,  129, 3,
           133, 5,  129, 0,
           5, 1,  25, 48,  41, 49,  117, 8,  133, 2,  129, 3,
           9, 56,  133, 1,  129, 3,
           192>>,
         "HID_PROTOCOL_MOUSE", {<<0, 1, 5, 251, 1>>})

\* Usage Page (Generic Desktop), Usage (Mouse), Collection (Application),
\* three buttons and five constant bits, then report_size 8, report_count 1,
\* Usage (X) naming a Collection (Physical), in it a byte without usage, X,
\* Y and a wheel, End Collection twice; reports of 5 bytes
UsageBeforeCollectionMouse ==
  Device("UsageBeforeCollectionMouse",
         <<5, 1,  9, 2,  161, 1,
           5, 9,  117, 1,  133, 3,  129, 3,
           133, 5,  129, 0,
           5, 1,  117, 8,  133, 1,
           9, 48,  161, 0,
           129, 3,
           9, 48,  129, 3,  9, 49,  129, 3,  9, 56,  129, 3,
           192,  192>>,
         "HID_PROTOCOL_MOUSE", {<<1, 9, 5, 251, 1>>})

\* three buttons, one 8-bit field for the usages X..Y (report_count 1), then
\* an 8-bit wheel
RangeThenWheelMouse ==
  Device("RangeThenWheelMouse",
         <<5, 9,  117, 1,  133, 3,  129, 3,
           5, 1,  25, 48,  41, 49,  117, 8,  133, 1,  129, 3,
           9, 56,  129, 3>>,
         "HID_PROTOCOL_MOUSE", {<<1, 5, 251>>})

\* three buttons and five constant bits, X and Y of 16 bits, a wheel of 8
\* bits: reports of 6 bytes; the second report is cut short after 5 bytes
WideAxesMouse ==
  Device("WideAxesMouse",
         <<5, 9,  117, 1,  133, 3,  129, 3,
           133, 5,  129, 0,
           5, 1,  25, 48,  41, 49,  117, 16,  133, 2,  129, 3,
           9, 56,  117, 8,  133, 1,  129, 3>>,
         "HID_PROTOCOL_MOUSE", {<<1, 5, 0, 251, 255, 1>>, <<1, 5, 0, 251, 255>>})

\* a pointer without buttons and without a Mouse collection (items as the
\* parser reads them): X and Y as a usage range, 8 bits each
ButtonlessPointer ==
  Device("ButtonlessPointer",
         <<5, 1, 25, 48, 41, 49, 117, 8, 133, 2, 129, 3>>,
         "HID_PROTOCOL_MOUSE", {<<0, 5, 251>>})

\* a Mouse application collection with three buttons, five constant bits, X
\* and Y (Global items as the parser reads them), then a Keyboard application
\* collection with six key-code inputs (Report Count 6 as HID 1.11 encodes it
\* and as the classifier's scan reads it)
KeyboardWithPointer ==
  Device("KeyboardWithPointer",
         <<5, 1,  9, 2,  161, 1,
           5, 9,  117, 1,  133, 3,  129, 3,
           133, 5,  129, 0,
           5, 1,  25, 48,  41, 49,  117, 8,  133, 2,  129, 3,
           192,
           9, 6,  161, 1,  5, 7,  149, 6,  129, 0,  192>>,
         "HID_PROTOCOL_KEYBOARD", {<<0, 0, 4, 0, 0, 0, 0, 0>>})

HostProfile == [ring_bits |-> RingBits, inputs |-> << {} >>,
                devices |-> {BootMouse, LoopMouse, ShortMouse, ParserMouse, IdMouse,
                             KeyboardProtoMouse, ComboOnKeyboard, ComboOnMouse,
                             KeyboardUsageInMouse, Keyboard, StandardMouse,
                             BareUsageMouse, PaddedMouse,
                             UsageBeforeCollectionMouse, RangeThenWheelMouse,
                             WideAxesMouse, ButtonlessPointer,
                             KeyboardWithPointer}]

\* report id 2: 16 buttons, 12-bit X and Y, 8-bit wheel, 56 bits, the offsets
\* counted from the byte after the report id
WideLayout ==
  [report_id |-> 2, buttons_bit_offset |-> 0, buttons_count |-> 16,
   x_bit_offset |-> 16, x_size |-> 12, y_bit_offset |-> 28, y_size |-> 12,
   wheel_bit_offset |-> 40, wheel_size |-> 8, report_size_bits |-> 56]

\* a mouse that sends 8-byte reports with report id 2
WideMouse ==
  Device("WideMouse", <<>>, "HID_PROTOCOL_MOUSE",
         {<<2, 2, 0, 255, 240, 0, 5, 0>>, <<2, 2, 0, 255, 15, 0, 5, 0>>,
          <<2, 24, 0, 0, 16, 128, 251, 0>>})

\* a started mouse and the layouts installed for it
DecodeProfile == [ring_bits |-> RingBits, inputs |-> << {} >>,
                  devices |-> {WideMouse}, layouts |-> {<<WideLayout>>}]

\* a mouse whose report descriptor cannot be read and that sends 5-byte reports
NoDescriptorMouse ==
  Device("NoDescriptorMouse", <<>>, "HID_PROTOCOL_MOUSE", {<<1, 0, 5, 251, 1>>})

\* devices plugged in and unplugged one after the other
ReplugProfile == [ring_bits |-> RingBits, inputs |-> << {} >>,
                  devices |-> {ParserMouse, NoDescriptorMouse, KeyboardProtoMouse,
                               Keyboard, ComboOnMouse}]

(* ------------------------------- state --------------------------------- *)
VARIABLES
  events, head, tail, count, overflow_count,      \* g_acc.ring
  t_last_send_us, residual_dx, residual_dy, residual_wheel,
  last_known_buttons, last_usb_buttons,
  total_events_pushed, total_events_popped,
  total_packets_sent, total_send_failures,
  ble_connected, sec_conn,                        \* BLE link up / authenticated
  auth_success,                                   \* auth_cmpl.success of the link's last
                                                  \* ESP_GAP_BLE_AUTH_CMPL_EVT
  clock,                                          \* esp_timer_get_time()
  profile,                                        \* ring size and mouse traffic
  pcU, event,                                     \* USB task: position, event under construction
  pcT, loc,                                       \* timer task: position, locals of try_send
  pcB, disconnects,                               \* BLE task: position, disconnects so far
  ble_mouse_report,                               \* last report handed to the sink
  snap, interf, last, popped, unconsumed,         \* history of the current/last tick
  edge_pending,                                   \* a flagged event pushed since the last clear
                                                  \* awaits a transmission with button_dirty
  pcH, dev,                                       \* USB host: position, the attached device
  prs, det,                                       \* locals of the descriptor parser / classifier
  keyboard_handle, mouse_handle,                  \* usb_hid_devices: a device is registered
  g_mouse_layouts, g_cached_layout, g_cached_report_id,
  last_buttons,                                   \* static of hid_host_mouse_report_callback
  reports_seen, rx,                               \* input reports so far, what the last one did
  g_accumulator,                                  \* the simple accumulator
  taken,                                          \* its try_send: position and locals
  simple_hist                                     \* history of its current/last try_send

ringVars == <<events, head, tail, count, overflow_count>>
accVars == <<t_last_send_us, residual_dx, residual_dy, residual_wheel, last_known_buttons>>
statVars == <<total_events_pushed, total_events_popped, total_packets_sent, total_send_failures>>
simpleVars == <<g_accumulator, taken, simple_hist>>
envVars == <<ble_connected, sec_conn, auth_success, clock, profile, disconnects, simpleVars>>
histVars == <<snap, interf, last, popped, unconsumed, edge_pending>>
hostVars == <<pcH, dev, prs, det, keyboard_handle, mouse_handle,
              g_mouse_layouts, g_cached_layout, g_cached_report_id,
              last_buttons, reports_seen, rx>>
vars == <<events, head, tail, count, overflow_count,
          t_last_send_us, residual_dx, residual_dy, residual_wheel,
          last_known_buttons, last_usb_buttons,
          total_events_pushed, total_events_popped,
          total_packets_sent, total_send_failures,
          ble_connected, sec_conn, auth_success, clock, profile,
          pcU, event, pcT, loc, pcB, disconnects,
          ble_mouse_report, snap, interf, last, popped, unconsumed, edge_pending,
          pcH, dev, prs, det, keyboard_handle, mouse_handle,
          g_mouse_layouts, g_cached_layout, g_cached_report_id,
          last_buttons, reports_seen, rx, g_accumulator, taken, simple_hist>>

RING_BUFFER_CAPACITY == 2 ^ profile.ring_bits
RING_BUFFER_MASK == RING_BUFFER_CAPACITY - 1
\* head and tail are uint32_t and wrap at 2^32; the model scales the index
\* width down with the capacity (two more bits than the capacity has)
IndexModulus == 4 * RING_BUFFER_CAPACITY
ToIdx(x) == x % IndexModulus

ZeroEvent == [t_us |-> 0, dx |-> 0, dy |-> 0, wheel |-> 0, buttons |-> 0, flags |-> 0]

ZeroLoc == [t_now |-> 0, sum_dx |-> 0, sum_dy |-> 0, sum_wheel |-> 0, btn |-> 0,
            button_dirty |-> FALSE, motion_dirty |-> FALSE,
            num_to_consume |-> 0, ring_count |-> 0, i |-> 0,
            new_residual_dx |-> 0, new_residual_dy |-> 0, new_residual_wheel |-> 0,
            window |-> <<>>]     \* history: the events the preview integrated

\* what a tick did: kind is none, notready, nodata, sending, sent or failed
NoTick == [kind |-> "none", ret |-> "none", k |-> 0, dx |-> 0, dy |-> 0, wheel |-> 0,
           sum_dx |-> 0, sum_dy |-> 0, sum_wheel |-> 0,
           btn |-> 0, button_dirty |-> FALSE]

\* the events between tail and head, oldest first
RingContents == [j \in 1..count |-> events[BitAnd(ToIdx(tail + j - 1), RING_BUFFER_MASK)]]

\* the resampler state a failed tick must leave alone
Snapshot == [head |-> head, tail |-> tail, count |-> count, contents |-> RingContents,
             residual_dx |-> residual_dx, residual_dy |-> residual_dy,
             residual_wheel |-> residual_wheel, t_last_send_us |-> t_last_send_us,
             last_known_buttons |-> last_known_buttons]

(* ------------------------ USB host side records ------------------------ *)
\* a uint32_t as two 16-bit halves (the model's integers stop short of 2^32)
U32(lo, hi) == [lo |-> lo, hi |-> hi]
U32Zero == U32(0, 0)
U32Max == U32(65535, 65535)

\* hid_report_layout_t after memset(0)
ZeroLayout == [report_id |-> 0, buttons_count |-> 0, buttons_bit_offset |-> 0,
               x_bit_offset |-> 0, x_size |-> 0, y_bit_offset |-> 0, y_size |-> 0,
               wheel_bit_offset |-> 0, wheel_size |-> 0, report_size_bits |-> 0]

\* locals of parse_hid_report_descriptor_layout(s); tmp_layouts and report_bits
\* are kept for the report ids with report_used set
ZeroParser == [pc |-> "idle", mode |-> "none", offset |-> 0, usage_page |-> 0,
               report_size |-> 0, report_count |-> 0, current_report_id |-> 0,
               last_usage |-> 0, usage_min |-> U32Zero, usage_max |-> U32Zero,
               have_usage_min_max |-> FALSE,
               tmp_layouts |-> <<>>, report_bits |-> <<>>,
               u |-> U32Zero, base_bit |-> 0]

\* results of hid_device_type_detect and the findings of its scan
ZeroDetect == [desc_check_success |-> FALSE, is_keyboard |-> FALSE, is_mouse |-> FALSE,
               found_keyboard_usage |-> FALSE, found_key_codes_input |-> FALSE,
               key_codes_input_count |-> 0,
               found_mouse_usage |-> FALSE, found_xy_input |-> FALSE]

NoDevice == [name |-> "none", desc |-> <<>>, proto |-> "HID_PROTOCOL_NONE", reports |-> {}]

\* what usb_hid_host_interface_callback did with the last input report
NoReport == [to |-> "none", data |-> <<>>, accepted |-> FALSE, use_layout |-> 0,
             buttons |-> 0, x |-> 0, y |-> 0, wheel |-> 0, buttons_final |-> 0]

\* g_accumulator of the simple accumulator after its static initialiser
ZeroAccumulator == [acc_dx |-> 0, acc_dy |-> 0, acc_wheel |-> 0, buttons |-> 0,
                    motion_dirty |-> FALSE, buttons_dirty |-> FALSE]

\* the simple try_send at rest: position, locals and the send's return value
NotTaken == [pc |-> "idle", dx_total |-> 0, dy_total |-> 0, wheel_total |-> 0,
             buttons_current |-> 0, ret |-> "none"]

\* the totals when the simple try_send took them, what mouse_accumulator_add
\* has added since, the buttons of the most recent add, the adds so far
NoSimpleHist == [pre_dx |-> 0, pre_dy |-> 0, pre_wheel |-> 0,
                 added_dx |-> 0, added_dy |-> 0, added_wheel |-> 0,
                 added_during_send |-> FALSE, last_add_buttons |-> 0, adds |-> 0]

\* the resampler, the BLE link and the history after construction
ResamplerInit(p) ==
  /\ g_accumulator = ZeroAccumulator /\ taken = NotTaken /\ simple_hist = NoSimpleHist
  /\ profile = p
  /\ events = [s \in 0..(2 ^ p.ring_bits - 1) |-> ZeroEvent]
  /\ head = 0 /\ tail = 0 /\ count = 0 /\ overflow_count = 0
  /\ t_last_send_us = 0
  /\ residual_dx = 0 /\ residual_dy = 0 /\ residual_wheel = 0
  /\ last_known_buttons = 0 /\ last_usb_buttons = 0
  /\ total_events_pushed = 0 /\ total_events_popped = 0
  /\ total_packets_sent = 0 /\ total_send_failures = 0
  /\ ble_connected = FALSE /\ sec_conn = FALSE /\ auth_success = FALSE
  /\ clock = 0
  /\ pcU = "idle" /\ event = ZeroEvent
  /\ pcT = "idle" /\ loc = ZeroLoc
  /\ pcB = "idle" /\ disconnects = 0
  /\ ble_mouse_report = <<0, 0, 0, 0, 0, 0>>
  /\ snap = [now |-> Snapshot, prev |-> NoTick]
  /\ interf = FALSE /\ last = NoTick
  /\ popped = <<>> /\ unconsumed = <<>>
  /\ edge_pending = FALSE

\* the USB host side with no device attached
HostDetached ==
  /\ pcH = "detached" /\ dev = NoDevice
  /\ prs = ZeroParser /\ det = ZeroDetect
  /\ keyboard_handle = FALSE /\ mouse_handle = FALSE
  /\ g_mouse_layouts = <<>> /\ g_cached_layout = 0 /\ g_cached_report_id = 255
  /\ last_buttons = 0
  /\ reports_seen = 0 /\ rx = NoReport

InitWith(p) == ResamplerInit(p) /\ HostDetached

Init == InitWith(GenProfile)

(* --------------------------- ring operations --------------------------- *)
\* ring_push that forgets to move tail when it overwrites a full ring
ring_push_NoTailAdvance(ev) ==
  [events |-> [events EXCEPT ![BitAnd(head, RING_BUFFER_MASK)] = ev],
   head |-> ToIdx(head + 1), tail |-> tail,
   count |-> IF count < RING_BUFFER_CAPACITY THEN count + 1 ELSE count,
   overflow_count |-> IF count < RING_BUFFER_CAPACITY THEN overflow_count
                      ELSE overflow_count + 1,
   total_events_pushed |-> total_events_pushed + 1]

\* ring_push that refuses the new event when the ring is full
ring_push_DropNewest(ev) ==
  IF count < RING_BUFFER_CAPACITY
  THEN [events |-> [events EXCEPT ![BitAnd(head, RING_BUFFER_MASK)] = ev],
        head |-> ToIdx(head + 1), tail |-> tail, count |-> count + 1,
        overflow_count |-> overflow_count,
        total_events_pushed |-> total_events_pushed + 1]
  ELSE [events |-> events, head |-> head, tail |-> tail, count |-> count,
        overflow_count |-> overflow_count + 1,
        total_events_pushed |-> total_events_pushed + 1]

\* ring_push: the ring after the critical section
ring_push(ev) ==
  IF count < RING_BUFFER_CAPACITY
  THEN [events |-> [events EXCEPT ![BitAnd(head, RING_BUFFER_MASK)] = ev],
        head |-> ToIdx(head + 1), tail |-> tail, count |-> count + 1,
        overflow_count |-> overflow_count,
        total_events_pushed |-> total_events_pushed + 1]
  ELSE [events |-> [events EXCEPT ![BitAnd(head, RING_BUFFER_MASK)] = ev],
        head |-> ToIdx(head + 1), tail |-> ToIdx(tail + 1), count |-> count,
        overflow_count |-> overflow_count + 1,
        total_events_pushed |-> total_events_pushed + 1]

\* ring_peek: success flag and the event copied out
ring_peek(idx) ==
  [success |-> idx < count,
   event |-> IF idx < count
             THEN events[BitAnd(ToIdx(tail + idx), RING_BUFFER_MASK)]
             ELSE ZeroEvent]

\* ring_pop_batch: tail, count and the statistic after the critical section
ring_pop_batch(num) ==
  LET num_to_pop == IF num > count THEN count ELSE num
  IN [tail |-> ToIdx(tail + num_to_pop), count |-> count - num_to_pop,
      total_events_popped |-> total_events_popped + num_to_pop]

ring_get_count == count

(* ------------------------------ USB task ------------------------------- *)
\* the reports the next call of mouse_accumulator_add may carry
NextInputs ==
  LET n == total_events_pushed + 1
  IN profile.inputs[IF n <= Len(profile.inputs) THEN n ELSE Len(profile.inputs)]

\* mouse_accumulator_add up to the call of ring_push: build the event and
\* compare with / update last_usb_buttons (outside the critical section)
mouse_accumulator_add(dx, dy, wheel, buttons) ==
  /\ event' = [t_us |-> clock, dx |-> dx, dy |-> dy, wheel |-> wheel,
               buttons |-> BitAnd(buttons, 31),
               flags |-> IF last_usb_buttons # buttons
                         THEN EVENT_FLAG_BUTTON_CHANGED ELSE 0]
  /\ last_usb_buttons' = IF last_usb_buttons # buttons THEN buttons
                         ELSE last_usb_buttons
  /\ pcU' = "push"

\* a call of mouse_accumulator_add with a report of the profile
AddStart ==
  /\ pcU = "idle"
  /\ total_events_pushed < MaxPushes
  /\ \E r \in NextInputs : mouse_accumulator_add(r.dx, r.dy, r.wheel, r.buttons)
  /\ UNCHANGED <<ringVars, accVars, statVars, envVars, pcT, loc, pcB,
                 ble_mouse_report, histVars, hostVars>>

\* mouse_accumulator_add, the call of ring_push
AddPush ==
  /\ pcU = "push"
  /\ LET r == ring_push(event)
     IN /\ events' = r.events /\ head' = r.head /\ tail' = r.tail
        /\ count' = r.count /\ overflow_count' = r.overflow_count
        /\ total_events_pushed' = r.total_events_pushed
  /\ pcU' = "idle"
  /\ interf' = TRUE
  /\ unconsumed' = Append(unconsumed, event)
  /\ edge_pending' = (edge_pending \/ BitAnd(event.flags, EVENT_FLAG_BUTTON_CHANGED) # 0)
  /\ UNCHANGED <<accVars, last_usb_buttons, total_events_popped, total_packets_sent,
                 total_send_failures, envVars, event, pcT, loc, pcB,
                 ble_mouse_report, snap, last, popped, hostVars>>

(* ----------------------------- timer task ------------------------------ *)
\* try_send, entry: sink-ready check, t_now, residuals and buttons read
TryStart ==
  /\ pcT = "idle"
  /\ snap' = [now |-> Snapshot, prev |-> IF last.kind = "failed" THEN last ELSE NoTick]
  /\ interf' = FALSE /\ popped' = <<>>
  /\ IF ~sec_conn
     THEN /\ last' = [NoTick EXCEPT !.kind = "notready"]
          /\ UNCHANGED <<pcT, loc>>
     ELSE /\ loc' = [ZeroLoc EXCEPT !.t_now = clock,
                                    !.sum_dx = residual_dx,
                                    !.sum_dy = residual_dy,
                                    !.sum_wheel = residual_wheel,
                                    !.btn = last_known_buttons]
          /\ pcT' = "count"
          /\ last' = NoTick
  /\ UNCHANGED <<ringVars, accVars, last_usb_buttons, statVars, envVars, pcU, event,
                 pcB, ble_mouse_report, unconsumed, edge_pending, hostVars>>

\* try_send, the call of ring_get_count before the preview loop
TryCount ==
  /\ pcT = "count"
  /\ loc' = [loc EXCEPT !.ring_count = ring_get_count, !.i = 0]
  /\ pcT' = IF ring_get_count > 0 THEN "peek" ELSE "send"
  /\ UNCHANGED <<ringVars, accVars, last_usb_buttons, statVars, envVars, pcU, event,
                 pcB, ble_mouse_report, histVars, hostVars>>

\* a preview loop that assigns the sums instead of adding to them
Accumulate_Overwrite(l, ev) ==
  [l EXCEPT !.sum_dx = ev.dx,
            !.sum_dy = ev.dy,
            !.sum_wheel = ev.wheel,
            !.btn = ev.buttons,
            !.button_dirty = l.button_dirty
                 \/ BitAnd(ev.flags, EVENT_FLAG_BUTTON_CHANGED) # 0,
            !.motion_dirty = l.motion_dirty \/ ev.dx # 0 \/ ev.dy # 0 \/ ev.wheel # 0,
            !.num_to_consume = l.num_to_consume + 1,
            !.i = l.i + 1,
            !.window = Append(l.window, ev)]

\* the body of the preview loop for an event inside the window
Accumulate(l, ev) ==
  [l EXCEPT !.sum_dx = ToInt32(l.sum_dx + ev.dx),
            !.sum_dy = ToInt32(l.sum_dy + ev.dy),
            !.sum_wheel = ToInt32(l.sum_wheel + ev.wheel),
            !.btn = ev.buttons,
            !.button_dirty = l.button_dirty
                 \/ BitAnd(ev.flags, EVENT_FLAG_BUTTON_CHANGED) # 0,
            !.motion_dirty = l.motion_dirty \/ ev.dx # 0 \/ ev.dy # 0 \/ ev.wheel # 0,
            !.num_to_consume = l.num_to_consume + 1,
            !.i = l.i + 1,
            !.window = Append(l.window, ev)]

\* one iteration of the preview loop: ring_peek(i) and what follows it
TryPeek ==
  /\ pcT = "peek"
  /\ LET r == ring_peek(loc.i)
     IN IF r.success /\ r.event.t_us <= loc.t_now
        THEN /\ loc' = Accumulate(loc, r.event)
             /\ pcT' = IF loc.i + 1 < loc.ring_count THEN "peek" ELSE "send"
        ELSE /\ pcT' = "send"
             /\ UNCHANGED loc
  /\ UNCHANGED <<ringVars, accVars, last_usb_buttons, statVars, envVars, pcU, event,
                 pcB, ble_mouse_report, histVars, hostVars>>

\* the 6-byte report of try_send
BuildReport(btn, dx, dy, wheel) ==
  << BitAnd(btn, 31),
     ToU8(BitAnd(LowBits16(dx), 255)),
     ToU8(BitAnd(LowBits16(dx \div 256), 255)),
     ToU8(BitAnd(LowBits16(dy), 255)),
     ToU8(BitAnd(LowBits16(dy \div 256), 255)),
     ToU8(wheel) >>

\* saturation of X to the whole int16 range
dx_send_FullRange == ToInt16(clamp_s32(loc.sum_dx, -32768, 32767))

\* saturation of the three sums
dx_send == ToInt16(clamp_s32(loc.sum_dx, -32767, 32767))
dy_send == ToInt16(clamp_s32(loc.sum_dy, -32767, 32767))
wheel_send == ToInt8(clamp_s32(loc.sum_wheel, -127, 127))

\* results of mouse_accumulator_send_ble_report
SendResults == {"ESP_OK", "ESP_ERR_INVALID_STATE", "ESP_FAIL"}

TickRecord(kind, ret) ==
  [kind |-> kind, ret |-> ret, k |-> loc.num_to_consume,
   dx |-> dx_send, dy |-> dy_send, wheel |-> wheel_send,
   sum_dx |-> loc.sum_dx, sum_dy |-> loc.sum_dy, sum_wheel |-> loc.sum_wheel,
   btn |-> loc.btn, button_dirty |-> loc.button_dirty]

\* try_send when the send returned ESP_OK (the stack accepts a notification
\* only while the link is up): on to the commit
SendOk ==
  /\ ble_connected
  /\ pcT' = IF loc.num_to_consume > 0 THEN "pop" ELSE "store"
  /\ loc' = [loc EXCEPT !.new_residual_dx = ToInt32(loc.sum_dx - dx_send),
                        !.new_residual_dy = ToInt32(loc.sum_dy - dy_send),
                        !.new_residual_wheel = ToInt32(loc.sum_wheel - wheel_send)]
  /\ last' = TickRecord("sending", "ESP_OK")
  /\ UNCHANGED <<ringVars, accVars, statVars>>

\* a failure path that pops the previewed events all the same
SendFailed_Pops(ret) ==
  /\ total_send_failures < MaxFailures \/ ~ble_connected
  /\ total_send_failures' = total_send_failures + 1
  /\ pcT' = "idle"
  /\ loc' = ZeroLoc
  /\ last' = TickRecord("failed", ret)
  /\ tail' = ring_pop_batch(loc.num_to_consume).tail
  /\ count' = ring_pop_batch(loc.num_to_consume).count
  /\ total_events_popped' = ring_pop_batch(loc.num_to_consume).total_events_popped
  /\ UNCHANGED <<events, head, overflow_count, accVars, total_events_pushed,
                 total_packets_sent>>

\* try_send when the send failed (always possible while the link is down,
\* otherwise MaxFailures times): only the failure statistic changes
SendFailed(ret) ==
  /\ total_send_failures < MaxFailures \/ ~ble_connected
  /\ total_send_failures' = total_send_failures + 1
  /\ pcT' = "idle"
  /\ loc' = ZeroLoc
  /\ last' = TickRecord("failed", ret)
  /\ UNCHANGED <<ringVars, accVars, total_events_pushed, total_events_popped,
                 total_packets_sent>>

\* try_send after the preview: idle return, saturation, report, notify
TrySend ==
  /\ pcT = "send"
  /\ IF ~loc.motion_dirty /\ ~loc.button_dirty
     THEN /\ pcT' = "idle"
          /\ last' = [NoTick EXCEPT !.kind = "nodata"]
          /\ loc' = ZeroLoc
          /\ UNCHANGED <<ringVars, accVars, statVars, ble_mouse_report>>
     ELSE /\ ble_mouse_report' = BuildReport(loc.btn, dx_send, dy_send, wheel_send)
          /\ \E ret \in SendResults :
               IF ret = "ESP_OK" THEN SendOk ELSE SendFailed(ret)
  /\ UNCHANGED <<last_usb_buttons, envVars, pcU, event, pcB, snap, interf, popped,
                 unconsumed, edge_pending, hostVars>>

\* the commit, first part: ring_pop_batch(num_to_consume)
TryPop ==
  /\ pcT = "pop"
  /\ LET r == ring_pop_batch(loc.num_to_consume)
     IN /\ tail' = r.tail /\ count' = r.count
        /\ total_events_popped' = r.total_events_popped
        /\ popped' = SubSeq(RingContents, 1, count - r.count)
        /\ unconsumed' = SubSeq(unconsumed, Len(unconsumed) - r.count + 1,
                                Len(unconsumed))
  /\ pcT' = "store"
  /\ UNCHANGED <<events, head, overflow_count, accVars, last_usb_buttons,
                 total_events_pushed, total_packets_sent, total_send_failures,
                 envVars, pcU, event, loc, pcB, ble_mouse_report, snap, interf, last,
                 edge_pending, hostVars>>

\* the commit, second part: watermark, residuals, buttons, statistic
TryCommit ==
  /\ pcT = "store"
  /\ t_last_send_us' = loc.t_now
  /\ residual_dx' = loc.new_residual_dx
  /\ residual_dy' = loc.new_residual_dy
  /\ residual_wheel' = loc.new_residual_wheel
  /\ last_known_buttons' = loc.btn
  /\ total_packets_sent' = total_packets_sent + 1
  /\ last' = [last EXCEPT !.kind = "sent"]
  /\ edge_pending' = (edge_pending /\ ~last.button_dirty)
  /\ pcT' = "idle"
  /\ loc' = ZeroLoc
  /\ UNCHANGED <<ringVars, last_usb_buttons, total_events_pushed, total_events_popped,
                 total_send_failures, envVars, pcU, event, pcB, ble_mouse_report,
                 snap, interf, popped, unconsumed, hostVars>>

(* ------------------------------ BLE task ------------------------------- *)
\* ESP_HIDD_EVENT_BLE_CONNECT
BleConnect ==
  /\ pcB = "idle" /\ ~ble_connected
  /\ ble_connected' = TRUE
  /\ UNCHANGED <<ringVars, accVars, last_usb_buttons, statVars, sec_conn, auth_success,
                 clock, profile, simpleVars, disconnects, pcU, event, pcT, loc, pcB,
                 ble_mouse_report, histVars, hostVars>>

\* ESP_GAP_BLE_AUTH_CMPL_EVT with param->ble_security.auth_cmpl.success
AuthCmpl(success) ==
  /\ pcB = "idle" /\ ble_connected
  /\ sec_conn' = TRUE
  /\ auth_success' = success
  /\ UNCHANGED <<ringVars, accVars, last_usb_buttons, statVars, ble_connected, clock,
                 profile, simpleVars, disconnects, pcU, event, pcT, loc, pcB, ble_mouse_report,
                 histVars, hostVars>>

\* the pairing succeeds
AuthComplete == AuthCmpl(TRUE)

\* the pairing succeeds or fails
AuthCompleteAny == \E success \in BOOLEAN : AuthCmpl(success)

\* ESP_HIDD_EVENT_BLE_DISCONNECT up to the call of mouse_accumulator_clear
BleDisconnect ==
  /\ pcB = "idle" /\ ble_connected
  /\ disconnects < MaxDisconnects
  /\ disconnects' = disconnects + 1
  /\ ble_connected' = FALSE
  /\ sec_conn' = FALSE
  /\ auth_success' = FALSE
  /\ pcB' = "clear"
  /\ UNCHANGED <<ringVars, accVars, last_usb_buttons, statVars, clock, profile, simpleVars,
                 pcU, event, pcT, loc, ble_mouse_report, histVars, hostVars>>

\* a clear that wipes the overflow statistic with the rest of the ring
mouse_accumulator_clear_ZeroesStats ==
  /\ pcB = "clear"
  /\ head' = 0 /\ tail' = 0 /\ count' = 0 /\ overflow_count' = 0
  /\ t_last_send_us' = clock
  /\ residual_dx' = 0 /\ residual_dy' = 0 /\ residual_wheel' = 0
  /\ last_known_buttons' = 0
  /\ last_usb_buttons' = 0
  /\ pcB' = "idle"
  /\ interf' = TRUE
  /\ unconsumed' = <<>>
  /\ edge_pending' = FALSE
  /\ UNCHANGED <<events, statVars, envVars, pcU, event, pcT, loc,
                 ble_mouse_report, snap, last, popped, hostVars>>

\* mouse_accumulator_clear: one critical section
mouse_accumulator_clear ==
  /\ pcB = "clear"
  /\ head' = 0 /\ tail' = 0 /\ count' = 0
  /\ t_last_send_us' = clock
  /\ residual_dx' = 0 /\ residual_dy' = 0 /\ residual_wheel' = 0
  /\ last_known_buttons' = 0
  /\ last_usb_buttons' = 0
  /\ pcB' = "idle"
  /\ interf' = TRUE
  /\ unconsumed' = <<>>
  /\ edge_pending' = FALSE
  /\ UNCHANGED <<events, overflow_count, statVars, envVars, pcU, event, pcT, loc,
                 ble_mouse_report, snap, last, popped, hostVars>>

(* -------------------------------- clock -------------------------------- *)
\* esp_timer_get_time() moves on
ClockAdvance ==
  /\ clock < MaxTime
  /\ clock' = clock + 1
  /\ UNCHANGED <<ringVars, accVars, last_usb_buttons, statVars, ble_connected, sec_conn,
                 auth_success, profile, simpleVars, disconnects, pcU, event, pcT, loc, pcB,
                 ble_mouse_report, histVars, hostVars>>

(* ------------------------- simple accumulator -------------------------- *)
\* everything but the simple accumulator
ringSideVars == <<ringVars, accVars, last_usb_buttons, statVars, ble_connected, sec_conn,
                  auth_success, clock, profile, disconnects, pcU, event, pcT, loc, pcB,
                  ble_mouse_report, histVars, hostVars>>

\* the reports the USB task hands to the simple accumulator: a button press
\* with motion, motion with the button released, saturating motion
SimpleInputs == {In(3, 0, 0, 1), In(4, 0, 0, 0), In(20000, 0, 100, 0)}

\* mouse_accumulator_add of the simple accumulator: one critical section
SimpleAdd ==
  /\ simple_hist.adds < MaxPushes
  /\ \E r \in SimpleInputs :
       LET sending == taken.pc # "idle"
       IN /\ g_accumulator' =
               [g_accumulator EXCEPT
                  !.acc_dx = ToInt32(@ + r.dx),
                  !.acc_dy = ToInt32(@ + r.dy),
                  !.acc_wheel = ToInt32(@ + r.wheel),
                  !.motion_dirty = @ \/ r.dx # 0 \/ r.dy # 0 \/ r.wheel # 0,
                  !.buttons = r.buttons,
                  !.buttons_dirty = @ \/ g_accumulator.buttons # r.buttons]
          /\ simple_hist' =
               [simple_hist EXCEPT
                  !.adds = @ + 1,
                  !.last_add_buttons = r.buttons,
                  !.added_dx = IF sending THEN @ + r.dx ELSE @,
                  !.added_dy = IF sending THEN @ + r.dy ELSE @,
                  !.added_wheel = IF sending THEN @ + r.wheel ELSE @,
                  !.added_during_send = @ \/ sending]
  /\ UNCHANGED <<taken, ringSideVars>>

\* the simple try_send, first critical section: the totals are taken and the
\* accumulator is zeroed (without a connection or without data it returns)
SimpleTake ==
  /\ taken.pc = "idle"
  /\ sec_conn
  /\ g_accumulator.motion_dirty \/ g_accumulator.buttons_dirty
  /\ taken' = [pc |-> "saturate",
               dx_total |-> g_accumulator.acc_dx, dy_total |-> g_accumulator.acc_dy,
               wheel_total |-> g_accumulator.acc_wheel,
               buttons_current |-> g_accumulator.buttons, ret |-> "none"]
  /\ g_accumulator' = [g_accumulator EXCEPT !.acc_dx = 0, !.acc_dy = 0, !.acc_wheel = 0,
                                            !.motion_dirty = FALSE,
                                            !.buttons_dirty = FALSE]
  /\ simple_hist' = [simple_hist EXCEPT
                       !.pre_dx = g_accumulator.acc_dx, !.pre_dy = g_accumulator.acc_dy,
                       !.pre_wheel = g_accumulator.acc_wheel,
                       !.added_dx = 0, !.added_dy = 0, !.added_wheel = 0,
                       !.added_during_send = FALSE]
  /\ UNCHANGED ringSideVars

\* dx_send, dy_send, wheel_send of the simple try_send
SimpleSendValues ==
  [dx |-> ToInt16(clamp_s32(taken.dx_total, -32767, 32767)),
   dy |-> ToInt16(clamp_s32(taken.dy_total, -32767, 32767)),
   wheel |-> ToInt8(clamp_s32(taken.wheel_total, -127, 127))]

\* the simple try_send, saturation: what exceeds the report is written back
SimpleWriteBack ==
  /\ taken.pc = "saturate"
  /\ LET dx_remain == ToInt32(taken.dx_total - SimpleSendValues.dx)
         dy_remain == ToInt32(taken.dy_total - SimpleSendValues.dy)
         wheel_remain == ToInt32(taken.wheel_total - SimpleSendValues.wheel)
     IN IF dx_remain # 0 \/ dy_remain # 0 \/ wheel_remain # 0
        THEN g_accumulator' = [g_accumulator EXCEPT
                                 !.acc_dx = ToInt32(@ + dx_remain),
                                 !.acc_dy = ToInt32(@ + dy_remain),
                                 !.acc_wheel = ToInt32(@ + wheel_remain),
                                 !.motion_dirty = TRUE]
        ELSE UNCHANGED g_accumulator
  /\ taken' = [taken EXCEPT !.pc = "send"]
  /\ UNCHANGED <<simple_hist, ringSideVars>>

\* the simple try_send, the send and, when it failed, the rollback
SimpleSend ==
  /\ taken.pc = "send"
  /\ \E ret \in SendResults :
       /\ taken' = [taken EXCEPT !.pc = "idle", !.ret = ret]
       /\ IF ret # "ESP_OK"
          THEN g_accumulator' = [g_accumulator EXCEPT
                                   !.acc_dx = ToInt32(@ + SimpleSendValues.dx),
                                   !.acc_dy = ToInt32(@ + SimpleSendValues.dy),
                                   !.acc_wheel = ToInt32(@ + SimpleSendValues.wheel),
                                   !.buttons = taken.buttons_current,
                                   !.motion_dirty = TRUE,
                                   !.buttons_dirty = TRUE]
          ELSE UNCHANGED g_accumulator
  /\ UNCHANGED <<simple_hist, ringSideVars>>

(* --------------------------- descriptor parser ------------------------- *)
U32Nat(v) == v.hi * 65536 + v.lo
U32FromNat(n) == U32(n % 65536, n \div 65536)
U32Le(a, b) == a.hi < b.hi \/ (a.hi = b.hi /\ a.lo <= b.lo)
U32Lt(a, b) == a.hi < b.hi \/ (a.hi = b.hi /\ a.lo < b.lo)
\* a - b and a + 1 in uint32_t arithmetic
U32Sub(a, b) ==
  LET borrow == IF a.lo < b.lo THEN 1 ELSE 0
  IN U32((a.lo - b.lo) % 65536, (a.hi - b.hi - borrow) % 65536)
U32Inc(a) ==
  IF a.lo < 65535 THEN U32(a.lo + 1, a.hi)
  ELSE U32(0, (a.hi + 1) % 65536)

\* the prefix byte of the item at offset (0-based, as in the source)
ItemByte(desc, offset) == desc[offset + 1]
item_type_of(item) == (item \div 4) % 4
item_tag_of(item) == (item \div 16) % 16
item_size_of(item) == item % 4
payload_bytes_of(item) == IF item_size_of(item) = 3 THEN 4 ELSE item_size_of(item)

\* item_value: the payload bytes, little-endian
ItemValue(desc, offset, payload_bytes) ==
  LET b(i) == IF i < payload_bytes THEN desc[offset + 2 + i] ELSE 0
  IN U32(b(0) + 256 * b(1), b(2) + 256 * b(3))

\* report_used[id] = 1 with report_bits and tmp_layouts[id].report_id set
MarkUsed(p, id) ==
  IF id \in DOMAIN p.tmp_layouts THEN p
  ELSE [p EXCEPT
          !.tmp_layouts = [r \in DOMAIN p.tmp_layouts \cup {id} |->
                             IF r = id THEN [ZeroLayout EXCEPT !.report_id = id]
                             ELSE p.tmp_layouts[r]],
          !.report_bits = [r \in DOMAIN p.report_bits \cup {id} |->
                             IF r = id THEN (IF id # 0 THEN 8 ELSE 0)
                             ELSE p.report_bits[r]]]

\* report_bits[current_report_id] += report_count * report_size
AdvanceBits(p) ==
  [p EXCEPT !.report_bits[p.current_report_id] = @ + p.report_count * p.report_size]

\* the end of a Data Input item: advance, clear the local items, next item
AfterInput(p, desc) ==
  [AdvanceBits(p) EXCEPT
     !.last_usage = 0, !.have_usage_min_max = FALSE,
     !.offset = p.offset + 1 + payload_bytes_of(ItemByte(desc, p.offset)),
     !.pc = "item"]

\* an axis usage u found at bit offset bit: the first one of each axis counts
SetAxis(p, u, bit) ==
  LET id == p.current_report_id
      l == p.tmp_layouts[id]
  IN IF u = 48 /\ l.x_size = 0
     THEN [p EXCEPT !.tmp_layouts[id].x_bit_offset = bit,
                    !.tmp_layouts[id].x_size = p.report_size]
     ELSE IF u = 49 /\ l.y_size = 0
     THEN [p EXCEPT !.tmp_layouts[id].y_bit_offset = bit,
                    !.tmp_layouts[id].y_size = p.report_size]
     ELSE IF u = 56 /\ l.wheel_size = 0
     THEN [p EXCEPT !.tmp_layouts[id].wheel_bit_offset = bit,
                    !.tmp_layouts[id].wheel_size = p.report_size]
     ELSE p

\* a Data Input item up to the usage_min..usage_max loop
InputItem(p0, desc) ==
  LET p == MarkUsed(p0, p0.current_report_id)
      id == p.current_report_id
      base_bit == p.report_bits[id]
  IN IF p.usage_page = 9
     THEN AfterInput(IF p.tmp_layouts[id].buttons_count = 0
                     THEN [p EXCEPT !.tmp_layouts[id].buttons_bit_offset = base_bit,
                                    !.tmp_layouts[id].buttons_count = p.report_count % 65536]
                     ELSE p, desc)
     ELSE IF p.usage_page = 1
     THEN IF p.have_usage_min_max
          THEN [p EXCEPT !.pc = "usage", !.u = p.usage_min, !.base_bit = base_bit]
          ELSE IF p.last_usage # 0
          THEN AfterInput(SetAxis(p, p.last_usage, base_bit), desc)
          ELSE AfterInput(p, desc)
     ELSE AfterInput(p, desc)

\* one iteration of the while loop over the items
ParseItem(p, desc) ==
  IF p.offset >= Len(desc) THEN [p EXCEPT !.pc = "done"]
  ELSE
    LET item == ItemByte(desc, p.offset)
        payload_bytes == payload_bytes_of(item)
        item_value == ItemValue(desc, p.offset, payload_bytes)
        next == p.offset + 1 + payload_bytes
    IN IF p.offset + payload_bytes >= Len(desc) THEN [p EXCEPT !.pc = "done"]
       ELSE IF item_type_of(item) = 1
       THEN CASE item_tag_of(item) = 0 ->
                   [p EXCEPT !.usage_page = U32Nat(item_value), !.offset = next]
              [] item_tag_of(item) = 7 ->
                   [p EXCEPT !.report_size = U32Nat(item_value), !.offset = next]
              [] item_tag_of(item) = 8 ->
                   [p EXCEPT !.report_count = U32Nat(item_value), !.offset = next]
              [] item_tag_of(item) = 9 ->
                   [MarkUsed([p EXCEPT !.current_report_id = item_value.lo % 256],
                             item_value.lo % 256)
                      EXCEPT !.offset = next]
              [] OTHER -> [p EXCEPT !.offset = next]
       ELSE IF item_type_of(item) = 2
       THEN CASE item_tag_of(item) = 0 ->
                   [p EXCEPT !.last_usage = U32Nat(item_value),
                             !.have_usage_min_max = FALSE, !.offset = next]
              [] item_tag_of(item) = 1 ->
                   [p EXCEPT !.usage_min = item_value,
                             !.have_usage_min_max = TRUE, !.offset = next]
              [] item_tag_of(item) = 2 ->
                   [p EXCEPT !.usage_max = item_value,
                             !.have_usage_min_max = TRUE, !.offset = next]
              [] OTHER -> [p EXCEPT !.offset = next]
       ELSE IF item_type_of(item) = 0 /\ item_tag_of(item) = 8
       THEN IF item_value.lo % 2 = 0
            THEN \* a Constant field: only the single-layout parser clears the locals
                 LET q == IF p.current_report_id \in DOMAIN p.tmp_layouts
                          THEN AdvanceBits(p) ELSE p
                 IN IF p.mode = "layout"
                    THEN [q EXCEPT !.last_usage = 0, !.have_usage_min_max = FALSE,
                                   !.offset = next]
                    ELSE [q EXCEPT !.offset = next]
            ELSE InputItem(p, desc)
       ELSE [p EXCEPT !.offset = next]

\* the usages the loop body looks at: X, Y, Wheel
AxisUsages == {48, 49, 56}

\* for (u = usage_min; u <= usage_max; u++): the test and, for the first u
\* of the remaining range that the body looks at, the body.  Iterations with
\* any other u change nothing but u, and u++ wraps from 2^32 - 1 to 0.
UsageLoop(p, desc) ==
  IF ~U32Le(p.u, p.usage_max) THEN AfterInput(p, desc)
  ELSE
    LET ahead == {w \in AxisUsages : U32Lt(p.u, U32FromNat(w))
                                     /\ U32Le(U32FromNat(w), p.usage_max)}
        next_u == IF ahead # {}
                  THEN U32FromNat(CHOOSE w \in ahead : \A v \in ahead : w <= v)
                  ELSE IF p.usage_max = U32Max
                  THEN U32FromNat(48)
                  ELSE U32Inc(p.usage_max)
        q == IF p.u.hi = 0 /\ p.u.lo \in AxisUsages
             THEN SetAxis(p, p.u.lo,
                          p.base_bit + U32Nat(U32Sub(p.u, p.usage_min)) * p.report_size)
             ELSE p
    IN [q EXCEPT !.u = next_u]

\* for (rid = 0; rid < 256; rid++) if (report_used[rid]): the used report
\* ids in ascending order
UsedIds(p) ==
  LET used == DOMAIN p.tmp_layouts
  IN [j \in 1..Cardinality(used) |->
        CHOOSE r \in used : Cardinality({q \in used : q < r}) = j - 1]

Finalized(p, rid) == [p.tmp_layouts[rid] EXCEPT !.report_size_bits = p.report_bits[rid]]

\* parse_hid_report_descriptor_layout after the loop: return value and *out_layout
SingleLayoutResult(p) ==
  LET ids == UsedIds(p)
      good == {j \in 1..Len(ids) :
                 LET l == p.tmp_layouts[ids[j]]
                 IN l.buttons_count > 0 /\ l.x_size > 0 /\ l.y_size > 0}
  IN IF good # {}
     THEN [ret |-> 0,
           layout |-> Finalized(p, ids[CHOOSE j \in good : \A k \in good : j <= k])]
     ELSE IF Len(ids) > 0
     THEN [ret |-> -1, layout |-> Finalized(p, ids[1])]
     ELSE [ret |-> -1, layout |-> ZeroLayout]

\* parse_hid_report_descriptor_layouts after the loop: the layouts written
LayoutsResult(p, max_layouts) ==
  LET ids == UsedIds(p)
      n == IF Len(ids) < max_layouts THEN Len(ids) ELSE max_layouts
  IN [j \in 1..n |-> Finalized(p, ids[j])]

(* --------------------------- device classifier ------------------------- *)
PAGE_GENERIC_DESKTOP == 1
USAGE_MOUSE == 2
COLLECTION_TYPE_APPLICATION == 1

\* locals of the scan of hid_device_type_detect
ZeroScan == [offset |-> 0, current_usage_page |-> PAGE_GENERIC_DESKTOP,
             in_application_collection |-> FALSE, collection_usage |-> 0,
             found_keyboard_usage |-> FALSE, found_key_codes_input |-> FALSE,
             key_codes_input_count |-> 0,
             found_mouse_usage |-> FALSE, found_xy_input |-> FALSE,
             in_keyboard_collection |-> FALSE, in_mouse_collection |-> FALSE,
             report_count |-> 0]

\* the item at offset processed: the scan's locals after "offset += item_size"
ScanItem(d, desc, item) ==
  LET item_type == item_type_of(item)
      item_tag == item_tag_of(item)
      item_size == item_size_of(item)
      offset == d.offset + 1
      byte(i) == IF i < item_size THEN desc[offset + 1 + i] ELSE 0
      item_data == IF item_size > 0 /\ offset + item_size <= Len(desc)
                   THEN byte(0) + 256 * byte(1) ELSE 0
      e == [d EXCEPT !.offset = offset + item_size]
  IN IF item_type = 1
     THEN IF item_tag = 0 THEN [e EXCEPT !.current_usage_page = item_data % 256]
          ELSE IF item_tag = 9 THEN [e EXCEPT !.report_count = item_data]
          ELSE e
     ELSE IF item_type = 2
     THEN IF item_tag = 0
          THEN LET f == IF d.in_application_collection
                           /\ d.current_usage_page = PAGE_GENERIC_DESKTOP
                        THEN IF item_data = USAGE_MOUSE
                             THEN [e EXCEPT !.found_mouse_usage = TRUE,
                                            !.in_mouse_collection = TRUE]
                             ELSE IF item_data = 6
                             THEN [e EXCEPT !.found_keyboard_usage = TRUE,
                                            !.in_keyboard_collection = TRUE]
                             ELSE IF (item_data = 48 \/ item_data = 49)
                                     /\ d.in_mouse_collection
                             THEN [e EXCEPT !.found_xy_input = TRUE]
                             ELSE e
                        ELSE e
               IN IF ~d.in_application_collection
                  THEN [f EXCEPT !.collection_usage = item_data % 256]
                  ELSE f
          ELSE e
     ELSE IF item_type = 0
     THEN IF item_tag = 8
          THEN LET f == IF d.in_keyboard_collection /\ d.current_usage_page = 7
                        THEN [e EXCEPT !.found_key_codes_input = TRUE,
                                       !.key_codes_input_count = @ + d.report_count]
                        ELSE e
               IN IF d.in_mouse_collection
                     /\ d.current_usage_page = PAGE_GENERIC_DESKTOP
                  THEN [f EXCEPT !.found_xy_input = TRUE]
                  ELSE f
          ELSE IF item_tag = 10
          THEN IF item_data = COLLECTION_TYPE_APPLICATION
               THEN LET f == [e EXCEPT !.in_application_collection = TRUE,
                                       !.collection_usage = 0]
                    IN IF d.current_usage_page = PAGE_GENERIC_DESKTOP
                       THEN IF d.collection_usage = USAGE_MOUSE
                            THEN [f EXCEPT !.found_mouse_usage = TRUE,
                                           !.in_mouse_collection = TRUE]
                            ELSE IF d.collection_usage = 6
                            THEN [f EXCEPT !.found_keyboard_usage = TRUE,
                                           !.in_keyboard_collection = TRUE]
                            ELSE f
                       ELSE f
               ELSE e
          ELSE IF item_tag = 12
          THEN [e EXCEPT !.in_application_collection = FALSE,
                         !.in_keyboard_collection = FALSE,
                         !.in_mouse_collection = FALSE,
                         !.collection_usage = 0]
          ELSE e
     ELSE e

\* the while loop of the scan, to its end
RECURSIVE DetectScan(_, _)
DetectScan(d, desc) ==
  IF d.offset >= Len(desc) THEN d
  ELSE LET item == ItemByte(desc, d.offset)
       IN IF item_size_of(item) = 3
          THEN IF d.offset + 1 < Len(desc)
               THEN DetectScan([d EXCEPT !.offset = d.offset + 2 + desc[d.offset + 2]],
                               desc)
               ELSE d
          ELSE DetectScan(ScanItem(d, desc, item), desc)

\* hid_device_type_detect, given what parse_hid_report_descriptor_layout returned
hid_device_type_detect(desc, single) ==
  IF Len(desc) = 0 THEN ZeroDetect
  ELSE IF single.ret = 0 /\ single.layout.x_size > 0 /\ single.layout.y_size > 0
  THEN [ZeroDetect EXCEPT !.desc_check_success = TRUE, !.is_mouse = TRUE]
  ELSE LET d == DetectScan(ZeroScan, desc)
       IN [desc_check_success |-> TRUE,
           is_keyboard |-> d.found_keyboard_usage /\ d.found_key_codes_input
                           /\ d.key_codes_input_count >= 3,
           is_mouse |-> d.found_mouse_usage /\ d.found_xy_input,
           found_keyboard_usage |-> d.found_keyboard_usage,
           found_key_codes_input |-> d.found_key_codes_input,
           key_codes_input_count |-> d.key_codes_input_count,
           found_mouse_usage |-> d.found_mouse_usage,
           found_xy_input |-> d.found_xy_input]

\* usb_hid_host_device_event: should_register_as_keyboard / _as_mouse
ShouldRegister(d, proto) ==
  LET first == IF d.desc_check_success
               THEN IF d.is_keyboard /\ d.is_mouse
                    THEN [keyboard |-> proto = "HID_PROTOCOL_KEYBOARD",
                          mouse |-> proto = "HID_PROTOCOL_MOUSE"]
                    ELSE [keyboard |-> d.is_keyboard /\ ~d.is_mouse, mouse |-> d.is_mouse]
               ELSE [keyboard |-> proto = "HID_PROTOCOL_KEYBOARD",
                     mouse |-> proto = "HID_PROTOCOL_MOUSE"]
  IN IF d.desc_check_success /\ d.is_mouse /\ proto = "HID_PROTOCOL_KEYBOARD"
     THEN [keyboard |-> FALSE, mouse |-> TRUE]
     ELSE IF d.desc_check_success /\ d.is_keyboard /\ proto = "HID_PROTOCOL_MOUSE"
     THEN [keyboard |-> TRUE, mouse |-> FALSE]
     ELSE first

(* ----------------------------- bit extractor --------------------------- *)
\* the loop of get_bits_u32 from iteration i on (a byte past data_len ends it)
RECURSIVE GetBitsFrom(_, _, _, _, _)
GetBitsFrom(data, data_len, bit_offset, bit_size, i) ==
  IF i >= bit_size THEN 0
  ELSE LET bit_index == bit_offset + i
           byte_index == bit_index \div 8
           bit_in_byte == bit_index % 8
       IN IF byte_index >= data_len THEN 0
          ELSE ((data[byte_index + 1] \div (2 ^ bit_in_byte)) % 2) * (2 ^ i)
               + GetBitsFrom(data, data_len, bit_offset, bit_size, i + 1)

get_bits_u32(data, data_len, bit_offset, bit_size) ==
  IF bit_size = 0 \/ bit_size > 32 THEN 0
  ELSE GetBitsFrom(data, data_len, bit_offset, bit_size, 0)

\* get_bits_s32 without the sign extension
get_bits_s32_Unsigned(data, data_len, bit_offset, bit_size) ==
  get_bits_u32(data, data_len, bit_offset, bit_size)

\* get_bits_u32 and the sign extension from bit_size bits
get_bits_s32(data, data_len, bit_offset, bit_size) ==
  LET u == get_bits_u32(data, data_len, bit_offset, bit_size)
  IN IF bit_size = 0 \/ bit_size > 32 THEN 0
     ELSE IF u >= 2 ^ (bit_size - 1) THEN u - 2 ^ bit_size
     ELSE u

(* ----------------------------- report decoder -------------------------- *)
MAX_MOUSE_LAYOUTS == 16
HID_REPORT_ID_SIZE_BITS == 8
g_mouse_layout_count == Len(g_mouse_layouts)

\* the layout chosen for a report of at least 5 bytes, and the cache afterwards;
\* layouts are named by their index in g_mouse_layouts, 0 is NULL
SelectLayout(data) ==
  LET length == Len(data)
      pid == data[1]
      cache_hit == g_cached_layout # 0 /\ g_cached_report_id = pid
      cache_ok == cache_hit
                  /\ length * 8 >= g_mouse_layouts[g_cached_layout].report_size_bits
      cached == IF cache_hit /\ ~cache_ok
                THEN [layout |-> 0, report_id |-> 255]
                ELSE [layout |-> g_cached_layout, report_id |-> g_cached_report_id]
      by_id == {j \in 1..g_mouse_layout_count :
                  /\ g_mouse_layouts[j].report_id # 0
                  /\ pid = g_mouse_layouts[j].report_id
                  /\ length * 8 >= g_mouse_layouts[j].report_size_bits}
      no_id == {j \in 1..g_mouse_layout_count :
                  /\ g_mouse_layouts[j].report_id = 0
                  /\ length * 8 >= g_mouse_layouts[j].report_size_bits}
      first(hits) == CHOOSE j \in hits : \A k \in hits : j <= k
  IN IF g_mouse_layout_count = 0
     THEN [use |-> 0, layout |-> g_cached_layout, report_id |-> g_cached_report_id]
     ELSE IF cache_ok
     THEN [use |-> g_cached_layout, layout |-> cached.layout, report_id |-> cached.report_id]
     ELSE IF by_id # {}
     THEN [use |-> first(by_id), layout |-> first(by_id), report_id |-> pid]
     ELSE IF no_id # {}
     THEN [use |-> first(no_id), layout |-> first(no_id), report_id |-> 0]
     ELSE [use |-> 0, layout |-> cached.layout, report_id |-> cached.report_id]

Decoded(use, buttons, x, y, wheel, buttons_final) ==
  [accepted |-> TRUE, use_layout |-> use, buttons |-> buttons,
   x |-> x, y |-> y, wheel |-> wheel, buttons_final |-> buttons_final]

Rejected == [accepted |-> FALSE, use_layout |-> 0, buttons |-> 0,
             x |-> 0, y |-> 0, wheel |-> 0, buttons_final |-> 0]

\* the fixed-offset decoding without the (int8_t) casts of X and Y
FixedOffsets_NoSignExtend(data, at, with_wheel) ==
  Decoded(0, data[at + 1], data[at + 2], data[at + 3],
          IF with_wheel THEN ToInt8(data[at + 4]) ELSE 0,
          BitAnd(data[at + 1], 7))

\* the fixed-offset decoding: Buttons, X, Y and (with_wheel) Wheel from byte at
FixedOffsets(data, at, with_wheel) ==
  Decoded(0, data[at + 1], ToInt16(ToInt8(data[at + 2])), ToInt16(ToInt8(data[at + 3])),
          IF with_wheel THEN ToInt8(data[at + 4]) ELSE 0,
          BitAnd(data[at + 1], 7))

\* the extraction by a parsed layout
ByLayout(data, use) ==
  LET l == g_mouse_layouts[use]
      length == Len(data)
      adj == IF l.report_id # 0 THEN HID_REPORT_ID_SIZE_BITS ELSE 0
      buttons_u == get_bits_u32(data, length, l.buttons_bit_offset + adj, l.buttons_count)
      x_raw == IF l.x_size # 0
               THEN get_bits_s32(data, length, l.x_bit_offset + adj, l.x_size) ELSE 0
      y_raw == IF l.y_size # 0
               THEN get_bits_s32(data, length, l.y_bit_offset + adj, l.y_size) ELSE 0
      wheel_raw == IF l.wheel_size # 0
                   THEN get_bits_s32(data, length, l.wheel_bit_offset + adj, l.wheel_size)
                   ELSE 0
  IN Decoded(use, IF l.buttons_count > 0 THEN buttons_u ELSE last_buttons,
             ToInt16(x_raw), ToInt16(y_raw), ToInt8(wheel_raw),
             IF l.buttons_count > 0 THEN BitAnd(buttons_u, 7) ELSE BitAnd(last_buttons, 7))

\* hid_host_mouse_report_callback up to the call of mouse_accumulator_add
MouseDecode(data) ==
  LET length == Len(data)
      with_id == data[1] > 0 /\ data[1] <= 15
  IN IF length < 3 THEN Rejected
     ELSE IF length = 3 THEN FixedOffsets(data, 0, FALSE)
     ELSE IF length >= 5
     THEN IF SelectLayout(data).use # 0 THEN ByLayout(data, SelectLayout(data).use)
          ELSE IF with_id THEN FixedOffsets(data, 1, TRUE)
          ELSE FixedOffsets(data, 0, TRUE)
     ELSE IF with_id THEN FixedOffsets(data, 1, FALSE)
     ELSE FixedOffsets(data, 0, TRUE)

(* ------------------------------ USB host ------------------------------- *)
\* HID_HOST_DRIVER_EVENT_CONNECTED up to the first descriptor parse, the one
\* hid_device_type_detect starts with
DeviceConnected ==
  /\ pcH = "detached"
  /\ \E d \in profile.devices :
       /\ dev' = d
       /\ IF Len(d.desc) = 0
          THEN /\ det' = hid_device_type_detect(d.desc, [ret |-> -1, layout |-> ZeroLayout])
               /\ pcH' = "register"
               /\ UNCHANGED prs
          ELSE /\ prs' = [ZeroParser EXCEPT !.pc = "item", !.mode = "layout"]
               /\ pcH' = "detect"
               /\ UNCHANGED det
  /\ UNCHANGED <<ringVars, accVars, last_usb_buttons, statVars, envVars, pcU, event,
                 pcT, loc, pcB, ble_mouse_report, histVars,
                 keyboard_handle, mouse_handle, g_mouse_layouts, g_cached_layout,
                 g_cached_report_id, last_buttons, reports_seen, rx>>

\* one item of the descriptor, in either parser
ParseStep ==
  /\ pcH \in {"detect", "layouts"}
  /\ prs.pc = "item"
  /\ prs' = ParseItem(prs, dev.desc)
  /\ UNCHANGED <<ringVars, accVars, last_usb_buttons, statVars, envVars, pcU, event,
                 pcT, loc, pcB, ble_mouse_report, histVars,
                 pcH, dev, det, keyboard_handle, mouse_handle, g_mouse_layouts,
                 g_cached_layout, g_cached_report_id, last_buttons, reports_seen, rx>>

\* the usage_min..usage_max loop of a Data Input item, in either parser
UsageLoopStep ==
  /\ pcH \in {"detect", "layouts"}
  /\ prs.pc = "usage"
  /\ prs' = UsageLoop(prs, dev.desc)
  /\ UNCHANGED <<ringVars, accVars, last_usb_buttons, statVars, envVars, pcU, event,
                 pcT, loc, pcB, ble_mouse_report, histVars,
                 pcH, dev, det, keyboard_handle, mouse_handle, g_mouse_layouts,
                 g_cached_layout, g_cached_report_id, last_buttons, reports_seen, rx>>

\* hid_device_type_detect after its call of parse_hid_report_descriptor_layout
DetectDone ==
  /\ pcH = "detect"
  /\ prs.pc = "done"
  /\ det' = hid_device_type_detect(dev.desc, SingleLayoutResult(prs))
  /\ prs' = ZeroParser
  /\ pcH' = "register"
  /\ UNCHANGED <<ringVars, accVars, last_usb_buttons, statVars, envVars, pcU, event,
                 pcT, loc, pcB, ble_mouse_report, histVars,
                 dev, keyboard_handle, mouse_handle, g_mouse_layouts,
                 g_cached_layout, g_cached_report_id, last_buttons, reports_seen, rx>>

\* usb_hid_host_device_event from the decision to the registration
RegisterDevice ==
  /\ pcH = "register"
  /\ LET r == ShouldRegister(det, dev.proto)
     IN IF r.keyboard
        THEN /\ keyboard_handle' = TRUE
             /\ pcH' = "ready"
             /\ UNCHANGED <<mouse_handle, prs>>
        ELSE IF r.mouse
        THEN /\ mouse_handle' = TRUE
             /\ IF Len(dev.desc) > 0
                THEN /\ prs' = [ZeroParser EXCEPT !.pc = "item", !.mode = "layouts"]
                     /\ pcH' = "layouts"
                ELSE /\ pcH' = "ready"
                     /\ UNCHANGED prs
             /\ UNCHANGED keyboard_handle
        ELSE /\ pcH' = "ready"
             /\ UNCHANGED <<keyboard_handle, mouse_handle, prs>>
  /\ UNCHANGED <<ringVars, accVars, last_usb_buttons, statVars, envVars, pcU, event,
                 pcT, loc, pcB, ble_mouse_report, histVars,
                 dev, det, g_mouse_layouts, g_cached_layout, g_cached_report_id,
                 last_buttons, reports_seen, rx>>

\* g_mouse_layout_count = parse_hid_report_descriptor_layouts(...), then the
\* device is started (the second call of the single-layout parser only logs)
InstallLayouts ==
  /\ pcH = "layouts"
  /\ prs.pc = "done"
  /\ g_mouse_layouts' = LayoutsResult(prs, MAX_MOUSE_LAYOUTS)
  /\ prs' = ZeroParser
  /\ pcH' = "ready"
  /\ UNCHANGED <<ringVars, accVars, last_usb_buttons, statVars, envVars, pcU, event,
                 pcT, loc, pcB, ble_mouse_report, histVars,
                 dev, det, keyboard_handle, mouse_handle,
                 g_cached_layout, g_cached_report_id, last_buttons, reports_seen, rx>>

\* HID_HOST_INTERFACE_EVENT_INPUT_REPORT: dispatch by dev_params.proto; a mouse
\* report is decoded and handed to mouse_accumulator_add, whose ring_push is
\* the step AddPush
InputReport ==
  /\ pcH = "ready" /\ pcU = "idle"
  /\ reports_seen < MaxReports
  /\ reports_seen' = reports_seen + 1
  /\ \E data \in dev.reports :
       IF dev.proto = "HID_PROTOCOL_KEYBOARD"
       THEN /\ rx' = [NoReport EXCEPT !.to = "keyboard", !.data = data]
            /\ UNCHANGED <<pcU, event, last_usb_buttons, g_cached_layout,
                           g_cached_report_id, last_buttons>>
       ELSE IF dev.proto = "HID_PROTOCOL_MOUSE"
       THEN LET m == MouseDecode(data)
                sel == IF Len(data) >= 5 THEN SelectLayout(data)
                       ELSE [use |-> 0, layout |-> g_cached_layout,
                             report_id |-> g_cached_report_id]
            IN /\ rx' = [to |-> "mouse", data |-> data, accepted |-> m.accepted,
                         use_layout |-> m.use_layout, buttons |-> m.buttons,
                         x |-> m.x, y |-> m.y, wheel |-> m.wheel,
                         buttons_final |-> m.buttons_final]
               /\ g_cached_layout' = sel.layout
               /\ g_cached_report_id' = sel.report_id
               /\ IF m.accepted
                  THEN /\ mouse_accumulator_add(m.x, m.y, m.wheel, m.buttons_final)
                       /\ last_buttons' = m.buttons_final
                  ELSE UNCHANGED <<pcU, event, last_usb_buttons, last_buttons>>
       ELSE /\ rx' = [NoReport EXCEPT !.to = "generic", !.data = data]
            /\ UNCHANGED <<pcU, event, last_usb_buttons, g_cached_layout,
                           g_cached_report_id, last_buttons>>
  /\ UNCHANGED <<ringVars, accVars, statVars, envVars, pcT, loc, pcB,
                 ble_mouse_report, histVars,
                 pcH, dev, prs, det, keyboard_handle, mouse_handle, g_mouse_layouts>>

\* HID_HOST_INTERFACE_EVENT_DISCONNECTED: the interface is closed and the
\* handle and the layout cache are cleared by dev_params.proto
DeviceDisconnected ==
  /\ pcH = "ready" /\ pcU = "idle"
  /\ IF dev.proto = "HID_PROTOCOL_KEYBOARD"
     THEN /\ keyboard_handle' = FALSE
          /\ UNCHANGED <<mouse_handle, g_cached_layout, g_cached_report_id>>
     ELSE IF dev.proto = "HID_PROTOCOL_MOUSE"
     THEN /\ mouse_handle' = FALSE
          /\ g_cached_layout' = 0
          /\ g_cached_report_id' = 255
          /\ UNCHANGED keyboard_handle
     ELSE UNCHANGED <<keyboard_handle, mouse_handle, g_cached_layout, g_cached_report_id>>
  /\ dev' = NoDevice
  /\ pcH' = "detached"
  /\ UNCHANGED <<ringVars, accVars, last_usb_buttons, statVars, envVars, pcU, event,
                 pcT, loc, pcB, ble_mouse_report, histVars,
                 prs, det, g_mouse_layouts, last_buttons, reports_seen, rx>>

(* --------------------------- specifications ---------------------------- *)
Timer == TryStart \/ TryCount \/ TryPeek \/ TrySend \/ TryPop \/ TryCommit

Next ==
  \/ AddStart
  \/ AddPush
  \/ TryStart
  \/ TryCount
  \/ TryPeek
  \/ TrySend
  \/ TryPop
  \/ TryCommit
  \/ BleConnect
  \/ AuthComplete
  \/ BleDisconnect
  \/ mouse_accumulator_clear
  \/ ClockAdvance

\* general traffic, every interleaving of the three tasks
Spec == Init /\ [][Next]_vars

\* the saturation scenario
SatInit == InitWith(SatProfile)
SatSpec == SatInit /\ [][Next]_vars

\* the retry scenario
RetryInit == InitWith(RetryProfile)
RetrySpec == RetryInit /\ [][Next]_vars

\* the periodic esp_timer keeps calling try_send, and a call runs to its end
FairSatSpec == SatInit /\ [][Next]_vars /\ WF_vars(Timer)

ButtonInit == InitWith(ButtonProfile)
FairButtonSpec == ButtonInit /\ [][Next]_vars /\ WF_vars(Timer)

\* the USB host task from attach to the input reports
UsbHost ==
  \/ DeviceConnected \/ ParseStep \/ UsageLoopStep \/ DetectDone
  \/ RegisterDevice \/ InstallLayouts \/ InputReport \/ AddPush

HostNext ==
  \/ DeviceConnected
  \/ ParseStep
  \/ UsageLoopStep
  \/ DetectDone
  \/ RegisterDevice
  \/ InstallLayouts
  \/ InputReport
  \/ AddPush
  \/ TryStart
  \/ TryCount
  \/ TryPeek
  \/ TrySend
  \/ TryPop
  \/ TryCommit
  \/ BleConnect
  \/ AuthComplete

\* a device is attached, classified and registered, and its reports go
\* through the decoder into the resampler
HostInit == InitWith(HostProfile)
HostSpec == HostInit /\ [][HostNext]_vars

\* the task that runs a descriptor parser keeps running until the parser returns
Parser == ParseStep \/ UsageLoopStep
FairHostSpec == HostInit /\ [][HostNext]_vars /\ WF_vars(Parser)

\* a mouse is registered and started with layouts installed; its reports go
\* through the decoder into the resampler
DecodeNext ==
  \/ InputReport
  \/ AddPush
  \/ TryStart
  \/ TryCount
  \/ TryPeek
  \/ TrySend
  \/ TryPop
  \/ TryCommit
  \/ BleConnect
  \/ AuthComplete

DecodeInit ==
  /\ ResamplerInit(DecodeProfile)
  /\ pcH = "ready" /\ dev \in DecodeProfile.devices
  /\ prs = ZeroParser /\ det = ZeroDetect
  /\ keyboard_handle = FALSE /\ mouse_handle = TRUE
  /\ g_mouse_layouts \in DecodeProfile.layouts
  /\ g_cached_layout = 0 /\ g_cached_report_id = 255
  /\ last_buttons = 0
  /\ reports_seen = 0 /\ rx = NoReport
DecodeSpec == DecodeInit /\ [][DecodeNext]_vars

\* devices are attached, send reports and are detached, one after the other
ReplugNext ==
  \/ DeviceConnected
  \/ ParseStep
  \/ UsageLoopStep
  \/ DetectDone
  \/ RegisterDevice
  \/ InstallLayouts
  \/ InputReport
  \/ AddPush
  \/ DeviceDisconnected

ReplugInit == InitWith(ReplugProfile)
ReplugSpec == ReplugInit /\ [][ReplugNext]_vars

\* the three tasks with a pairing that may fail
LinkNext ==
  \/ AddStart
  \/ AddPush
  \/ TryStart
  \/ TryCount
  \/ TryPeek
  \/ TrySend
  \/ TryPop
  \/ TryCommit
  \/ BleConnect
  \/ AuthCompleteAny
  \/ BleDisconnect
  \/ mouse_accumulator_clear
  \/ ClockAdvance

LinkSpec == ButtonInit /\ [][LinkNext]_vars

\* the simple accumulator between the USB task and the timer task
SimpleNext ==
  \/ SimpleAdd
  \/ SimpleTake
  \/ SimpleWriteBack
  \/ SimpleSend
  \/ BleConnect
  \/ AuthComplete

SimpleSpec == Init /\ [][SimpleNext]_vars

(* ------------------------------ properties ----------------------------- *)
RECURSIVE SumOf(_, _)
SumOf(seq, f) == IF seq = <<>> THEN 0 ELSE seq[1][f] + SumOf(Tail(seq), f)

FieldOf(seq, f) == [j \in 1..Len(seq) |-> seq[j][f]]
LastN(seq, n) == SubSeq(seq, Len(seq) - n + 1, Len(seq))
Min(a, b) == IF a < b THEN a ELSE b

\* the signed values a host reads from the report
DecodeS16(lo, hi) == LET u == lo + 256 * hi IN IF u >= 32768 THEN u - 65536 ELSE u
DecodeS8(b) == IF b >= 128 THEN b - 256 ELSE b

UsbPushStep == pcU = "push" /\ pcU' = "idle"
PopStep == pcT = "pop" /\ pcT' = "store"
CommitStep == pcT = "store" /\ pcT' = "idle"
ClearStep == pcB = "clear" /\ pcB' = "idle"

\* from here on the sink is ready and no send fails
SinkSteady ==
  /\ sec_conn /\ pcB = "idle"
  /\ disconnects = MaxDisconnects
  /\ total_send_failures >= MaxFailures

PushesDone == pcU = "idle" /\ total_events_pushed = MaxPushes

\* C1: when the send of a tick fails and neither a push nor a clear has run
\* since the tick began, head, tail, count, the stored events, the three
\* residuals, t_last_send_us and last_known_buttons are what they were when
\* the tick began.
C1_FailedSendKeepsState ==
  (last.kind = "failed" /\ ~interf) => Snapshot = snap.now

C1_Witness ==
  /\ last.kind = "failed" /\ ~interf
  /\ count > 0 /\ residual_dx # 0

\* C2: a commit removes exactly the num_to_consume previewed events, and per
\* axis the sum over the removed events is sent + new residual - old residual.
C2_CommitRemovesPreviewed ==
  [][CommitStep =>
       /\ Len(popped) = last.k
       /\ SumOf(popped, "dx") = last.dx + residual_dx' - snap.now.residual_dx
       /\ SumOf(popped, "dy") = last.dy + residual_dy' - snap.now.residual_dy
       /\ SumOf(popped, "wheel") = last.wheel + residual_wheel' - snap.now.residual_wheel]_vars

\* C3: once the pushes are over without overflow and the sink stays ready and
\* does not fail, the ticks transmit all motion: eventually the ring is empty
\* and the three residuals are zero.
C3_AllMotionTransmitted ==
  []((PushesDone /\ SinkSteady /\ overflow_count = 0)
       => <>(count = 0 /\ residual_dx = 0 /\ residual_dy = 0 /\ residual_wheel = 0))

\* C4: after pushes totalling dx = 40000 the first successful tick sends 32767
\* and leaves residual_dx = 7233, and the next tick of a ready sink, with no
\* new push, sends 7233 and leaves residual_dx = 0.
C4_ResidualSentNextTick ==
  /\ (/\ last.kind = "sent" /\ ~interf
      /\ snap.now.residual_dx = 0
      /\ SumOf(snap.now.contents, "dx") = 40000
      /\ last.k = snap.now.count)
       => (last.dx = 32767 /\ residual_dx = 7233)
  /\ (/\ last.kind \in {"nodata", "sent"} /\ ~interf
      /\ snap.now.residual_dx = 7233
      /\ snap.now.count = 0)
       => (last.kind = "sent" /\ last.dx = 7233 /\ residual_dx = 0)

\* C5: a pushed event with the button-changed flag leads to a tick that
\* computes button_dirty and transmits, once the sink is ready and stops
\* failing.
C5_ButtonEdgeTransmitted ==
  [](edge_pending /\ SinkSteady => <>(~edge_pending))

\* C6: when a tick whose window summed dx = 100 failed and pushes of +3 and +4
\* followed, the next successful tick transmits dx = 107 and leaves the ring
\* empty.
C6_RetryReintegrates ==
  (/\ last.kind = "sent" /\ ~interf
   /\ snap.prev.kind = "failed" /\ snap.prev.dx = 100
   /\ FieldOf(snap.now.contents, "dx") = <<100, 3, 4>>)
    => (last.dx = 107 /\ count = 0)

C6_Witness ==
  /\ last.kind = "sent" /\ ~interf
  /\ snap.prev.kind = "failed" /\ snap.prev.dx = 100
  /\ FieldOf(snap.now.contents, "dx") = <<100, 3, 4>>
  /\ last.dx = 107

\* C7: count never exceeds the capacity and head - tail equals count modulo
\* the index width; the producer moves tail only when it overwrites a full
\* ring, the consumer only in the commit's pop, and nothing else but clear
\* moves it.
C7_RingInvariant ==
  /\ [](count <= RING_BUFFER_CAPACITY /\ (head - tail) % IndexModulus = count)
  /\ [][/\ (UsbPushStep /\ tail' # tail) => count = RING_BUFFER_CAPACITY
        /\ tail' # tail => (UsbPushStep \/ PopStep \/ ClearStep)]_vars

C7_Witness ==
  /\ overflow_count > 0 /\ total_events_popped > 0
  /\ tail # 0 /\ (head - tail) % IndexModulus = count

C9_ClearResets ==
  /\ [][ClearStep =>
          /\ count' = 0 /\ head' = tail'
          /\ residual_dx' = 0 /\ residual_dy' = 0 /\ residual_wheel' = 0
          /\ last_known_buttons' = 0 /\ last_usb_buttons' = 0
          /\ overflow_count' = overflow_count
          /\ statVars' = statVars]_vars
  /\ [][(ble_connected /\ ~ble_connected') => pcB' = "clear"]_vars

\* a clear has wiped events out of a ring that had overflowed
C9_Witness ==
  /\ disconnects > 0 /\ pcB = "idle"
  /\ overflow_count > 0
  /\ unconsumed = <<>> /\ count = 0
  /\ total_events_pushed > total_events_popped + overflow_count

LoByte(v) == v % 256
HiByte(v) == (v % 65536) \div 256

\* a tick has run to its decision over a ring that held nothing but the event
\* of the last input report, with no residual, and nothing interfered
TickOverLastReport ==
  /\ rx.to = "mouse" /\ rx.accepted
  /\ pcU = "idle" /\ ~interf
  /\ last.kind \in {"nodata", "sending", "sent", "failed"}
  /\ snap.now.count = 1
  /\ snap.now.residual_dx = 0 /\ snap.now.residual_dy = 0
  /\ snap.now.residual_wheel = 0

BootReport == Len(rx.data) = 3 /\ rx.data[1] <= 7 /\ g_mouse_layout_count = 0

BootDecoded ==
  /\ rx.accepted
  /\ rx.buttons = rx.data[1] /\ rx.buttons_final = rx.data[1]
  /\ rx.x = DecodeS8(rx.data[2]) /\ rx.y = DecodeS8(rx.data[3])
  /\ rx.wheel = 0

BootTransmitted ==
  /\ last.kind \in {"sending", "sent", "failed"}
  /\ ble_mouse_report = << rx.data[1], LoByte(rx.x), HiByte(rx.x),
                           LoByte(rx.y), HiByte(rx.y), 0 >>

ReportIdExample == <<2, 2, 0, 255, 240, 0, 5, 0>>
WideReport(data) ==
  /\ rx.to = "mouse" /\ rx.data = data
  /\ g_mouse_layouts = <<WideLayout>>
RxTuple == <<rx.buttons, rx.x, rx.y, rx.wheel>>

C13_ParserTerminates == (prs.pc \in {"item", "usage"}) ~> (prs.pc = "done")
(* ---- C14 ---- *)
WithinReport(l) ==
  /\ l.buttons_bit_offset + l.buttons_count <= l.report_size_bits
  /\ l.x_size # 0 => l.x_bit_offset + l.x_size <= l.report_size_bits
  /\ l.y_size # 0 => l.y_bit_offset + l.y_size <= l.report_size_bits
  /\ l.wheel_size # 0 => l.wheel_bit_offset + l.wheel_size <= l.report_size_bits

\* C14: every layout a parser returns has its buttons and each of X, Y, wheel
\* of non-zero size inside report_size_bits
C14_LayoutsWithinReport ==
  /\ (pcH = "detect" /\ prs.pc = "done") => WithinReport(SingleLayoutResult(prs).layout)
  /\ (pcH = "layouts" /\ prs.pc = "done") =>
       \A j \in 1..Len(LayoutsResult(prs, MAX_MOUSE_LAYOUTS)) :
          WithinReport(LayoutsResult(prs, MAX_MOUSE_LAYOUTS)[j])
(* ---- C15 ---- *)
\* bit i of the value v stored in a field of s bits (two's complement)
FieldBit(v, s, i) == ((v % (2 ^ s)) \div (2 ^ i)) % 2

\* bit k of the report that carries the tuple t = (buttons, dx, dy, wheel) per
\* the layout l: the report id in the first byte when l has one, each field
\* at its bit offset
ReportBit(l, t, k) ==
  IF l.report_id # 0 /\ k < 8 THEN (l.report_id \div (2 ^ k)) % 2
  ELSE IF k >= l.buttons_bit_offset /\ k < l.buttons_bit_offset + l.buttons_count
  THEN FieldBit(t[1], l.buttons_count, k - l.buttons_bit_offset)
  ELSE IF k >= l.x_bit_offset /\ k < l.x_bit_offset + l.x_size
  THEN FieldBit(t[2], l.x_size, k - l.x_bit_offset)
  ELSE IF k >= l.y_bit_offset /\ k < l.y_bit_offset + l.y_size
  THEN FieldBit(t[3], l.y_size, k - l.y_bit_offset)
  ELSE IF k >= l.wheel_bit_offset /\ k < l.wheel_bit_offset + l.wheel_size
  THEN FieldBit(t[4], l.wheel_size, k - l.wheel_bit_offset)
  ELSE 0

EncodeReport(l, t) ==
  [b \in 1..((l.report_size_bits + 7) \div 8) |->
     ReportBit(l, t, 8 * (b - 1)) + 2 * ReportBit(l, t, 8 * (b - 1) + 1)
     + 4 * ReportBit(l, t, 8 * (b - 1) + 2) + 8 * ReportBit(l, t, 8 * (b - 1) + 3)
     + 16 * ReportBit(l, t, 8 * (b - 1) + 4) + 32 * ReportBit(l, t, 8 * (b - 1) + 5)
     + 64 * ReportBit(l, t, 8 * (b - 1) + 6) + 128 * ReportBit(l, t, 8 * (b - 1) + 7)]

\* the tuples of the round trip, and those a layout has the width for
Tuples == {<<1, 5, -5, 1>>, <<0, 5, -5, 1>>, <<2, -1, 0, 0>>}
InRange(v, s) == IF s = 0 THEN v = 0 ELSE v >= -(2 ^ (s - 1)) /\ v < 2 ^ (s - 1)
Fits(l, t) ==
  /\ t[1] >= 0 /\ t[1] < 2 ^ l.buttons_count
  /\ InRange(t[2], l.x_size) /\ InRange(t[3], l.y_size) /\ InRange(t[4], l.wheel_size)

PointingLayout(l) == l.buttons_count > 0 /\ l.x_size > 0 /\ l.y_size > 0 /\ WithinReport(l)

\* C15: when the parser returned a layout with buttons, X and Y, a report that
\* carries a tuple (buttons, dx, dy, wheel) per that layout is decoded to the
\* same tuple
C15_ParserDecoderRoundTrip ==
  \A j \in 1..g_mouse_layout_count : \A t \in Tuples :
     (/\ rx.to = "mouse" /\ pcH = "ready" /\ Len(dev.desc) > 0
      /\ PointingLayout(g_mouse_layouts[j]) /\ Fits(g_mouse_layouts[j], t)
      /\ rx.data = EncodeReport(g_mouse_layouts[j], t))
     => rx.accepted /\ RxTuple = t
(* ---- C16 ---- *)
\* C16: when the classifier reports both keyboard and pointing, the device is
\* registered by the protocol field: as keyboard if it says keyboard, as
\* mouse if it says mouse
C16_BothRolesFollowProtocol ==
  (pcH = "ready" /\ det.is_keyboard /\ det.is_mouse) =>
     /\ dev.proto = "HID_PROTOCOL_KEYBOARD" => keyboard_handle /\ ~mouse_handle
     /\ dev.proto = "HID_PROTOCOL_MOUSE" => mouse_handle /\ ~keyboard_handle

(* ---- C17 ---- *)
\* C17: an input report goes to the handler of the role registered at attach
C17_DispatchByRegisteredRole ==
  rx.to # "none" =>
     /\ mouse_handle => rx.to = "mouse"
     /\ keyboard_handle => rx.to = "keyboard"

(* ---- C18 ---- *)
\* the items of a descriptor read as HID 1.11 defines them: the largest sum of
\* the report counts of the Input items on usage page 7 inside one
\* Generic-Desktop Keyboard application collection (0 without one).  w holds
\* the offset, the global usage page and report count, the last Usage, for
\* each open collection whether it is such a collection, and the sums
RECURSIVE KeyboardKeys(_, _)
KeyboardKeys(desc, w) ==
  IF w.offset >= Len(desc) THEN IF w.sum > w.best THEN w.sum ELSE w.best
  ELSE
    LET item == desc[w.offset + 1]
        size == IF item % 4 = 3 THEN 4 ELSE item % 4
        value == IF size > 0 /\ w.offset + 2 <= Len(desc) THEN desc[w.offset + 2] ELSE 0
        n == [w EXCEPT !.offset = w.offset + 1 + size]
        inside == \E j \in 1..Len(w.open) : w.open[j]
    IN IF item \div 4 = 1 THEN KeyboardKeys(desc, [n EXCEPT !.page = value])
       ELSE IF item \div 4 = 37 THEN KeyboardKeys(desc, [n EXCEPT !.count = value])
       ELSE IF item \div 4 = 2 THEN KeyboardKeys(desc, [n EXCEPT !.usage = value])
       ELSE IF item \div 4 = 32
       THEN KeyboardKeys(desc, [n EXCEPT !.usage = 0,
                                         !.sum = IF inside /\ w.page = 7
                                                 THEN w.sum + w.count ELSE w.sum])
       ELSE IF item \div 4 = 40
       THEN KeyboardKeys(desc, [n EXCEPT !.usage = 0,
                                         !.open = Append(w.open, value = 1 /\ w.page = 1
                                                                 /\ w.usage = 6)])
       ELSE IF item \div 4 = 48 /\ Len(w.open) > 0
       THEN LET rest == SubSeq(w.open, 1, Len(w.open) - 1)
                closed == w.open[Len(w.open)] /\ \A j \in 1..Len(rest) : ~rest[j]
            IN KeyboardKeys(desc, [n EXCEPT !.open = rest,
                                            !.best = IF closed /\ w.sum > w.best
                                                     THEN w.sum ELSE w.best,
                                            !.sum = IF closed THEN 0 ELSE w.sum])
       ELSE KeyboardKeys(desc, n)

KeysInKeyboardCollection(desc) ==
  KeyboardKeys(desc, [offset |-> 0, page |-> 0, count |-> 0, usage |-> 0,
                      open |-> <<>>, sum |-> 0, best |-> 0])

\* C18: the classifier says keyboard only if the descriptor has a
\* Generic-Desktop Keyboard application collection whose Input items on usage
\* page 7 have report counts that sum to at least 3
C18_KeyboardOnlyWithKeyCollection ==
  (pcH \in {"register", "ready", "layouts"} /\ det.is_keyboard) =>
     KeysInKeyboardCollection(dev.desc) >= 3
(* ---- C19 ---- *)
\* the tick over the last input report handed a report to the sink
LastReportTransmitted ==
  /\ TickOverLastReport
  /\ last.kind \in {"sending", "sent", "failed"}

\* C19: a decoded input report with button 4 or 5 pressed (bit 3 or 4 of the
\* button field) has the same bit set in byte 0 of the report transmitted next
C19_SideButtonsSurvive ==
  LastReportTransmitted =>
     \A bit \in {8, 16} :
        BitAnd(rx.buttons, bit) # 0 => BitAnd(ble_mouse_report[1], bit) # 0

(* ---- C20 ---- *)
\* C20: after the preview of try_send, button_dirty is set if an event of the
\* window carried the button-changed flag or if the buttons of the window's
\* last event differ from last_known_buttons, so that the report is sent
\* even without motion
C20_ButtonDirtyOnStateChange ==
  (pcT = "send" /\ loc.num_to_consume > 0 /\ loc.btn # last_known_buttons)
     => loc.button_dirty
(* ---- C21 ---- *)
\* C21: the events a commit removes from the ring are the events the preview
\* integrated into the transmitted report, in the same order, whatever pushes
\* (overflowing ones included) ran during the preview or before the commit
\* (in a behaviour without a disconnect, so that no clear interferes)
C21_CommitRemovesIntegrated ==
  (pcT = "store" /\ last.kind = "sending" /\ disconnects = 0) => popped = loc.window
(* ---- C22 ---- *)
\* the steps that run between portENTER_CRITICAL and portEXIT_CRITICAL of the
\* spinlock: ring_push, ring_get_count, ring_peek, ring_pop_batch and the
\* body of mouse_accumulator_clear
CriticalSection ==
  \/ UsbPushStep
  \/ pcT = "count" /\ pcT' # "count"
  \/ pcT = "peek"
  \/ PopStep
  \/ ClearStep

\* C22: the ring, the residuals, t_last_send_us and last_known_buttons change
\* only in steps that hold the spinlock
C22_SharedFieldsUnderLock ==
  [][<<ringVars, accVars>>' # <<ringVars, accVars>> => CriticalSection]_vars
(* ---- C23 ---- *)
\* the bits of the Input items of report id that lie before the item at
\* offset upto, the report id byte not counted: w holds the offset of the walk
\* and the report_size, report_count and report id in force there (the tags
\* as the parser reads them)
RECURSIVE InputBitsBefore(_, _, _, _)
InputBitsBefore(desc, upto, id, w) ==
  IF w.offset >= upto THEN w.bits
  ELSE
    LET item == ItemByte(desc, w.offset)
        value == ItemValue(desc, w.offset, payload_bytes_of(item)).lo
        n == [w EXCEPT !.offset = w.offset + 1 + payload_bytes_of(item)]
    IN IF item_type_of(item) = 1 /\ item_tag_of(item) = 7
       THEN InputBitsBefore(desc, upto, id, [n EXCEPT !.size = value])
       ELSE IF item_type_of(item) = 1 /\ item_tag_of(item) = 8
       THEN InputBitsBefore(desc, upto, id, [n EXCEPT !.count = value])
       ELSE IF item_type_of(item) = 1 /\ item_tag_of(item) = 9
       THEN InputBitsBefore(desc, upto, id, [n EXCEPT !.id = value % 256])
       ELSE IF item_type_of(item) = 0 /\ item_tag_of(item) = 8 /\ w.id = id
       THEN InputBitsBefore(desc, upto, id, [n EXCEPT !.bits = w.bits + w.count * w.size])
       ELSE InputBitsBefore(desc, upto, id, n)

PayloadBitsBefore(desc, upto, id) ==
  InputBitsBefore(desc, upto, id, [offset |-> 0, size |-> 0, count |-> 0, id |-> 0, bits |-> 0])

\* C23: for a report with an id, the bit position the parser gives the next
\* field (and at the end report_size_bits) is the number of payload bits
\* declared before it, so that the first field is at bit 0 and the id byte is
\* skipped by the decoder alone
C23_OffsetsRelativeToPayload ==
  (pcH \in {"detect", "layouts"} /\ prs.pc \in {"item", "usage", "done"}) =>
     \A id \in DOMAIN prs.report_bits :
        id # 0 => prs.report_bits[id] = PayloadBitsBefore(dev.desc, prs.offset, id)
(* ---- C24 ---- *)
\* a parser is about to process the complete item at prs.offset
AtItem ==
  /\ pcH \in {"detect", "layouts"} /\ prs.pc = "item"
  /\ prs.offset < Len(dev.desc)
  /\ prs.offset + payload_bytes_of(ItemByte(dev.desc, prs.offset)) < Len(dev.desc)
\* the parser's step over that item
ItemStep == AtItem /\ prs' # prs
ItemPrefix == ItemByte(dev.desc, prs.offset)
ItemData == ItemValue(dev.desc, prs.offset, payload_bytes_of(ItemPrefix)).lo

\* C24: the item with prefix 0x85 (global tag 8, Report ID) sets the current
\* report id and leaves report_count, the item with prefix 0x95 (global tag 9,
\* Report Count) sets report_count and leaves the current report id
C24_ItemEncodingPerHid ==
  [][ItemStep =>
       /\ ItemPrefix = 133 => /\ prs'.current_report_id = ItemData
                              /\ prs'.report_count = prs.report_count
       /\ ItemPrefix = 149 => /\ prs'.report_count = ItemData
                              /\ prs'.current_report_id = prs.current_report_id]_vars
(* ---- C25 ---- *)
\* the bit offset of the current report before the item at prs.offset
CurrentBits ==
  IF prs.current_report_id \in DOMAIN prs.report_bits
  THEN prs.report_bits[prs.current_report_id]
  ELSE IF prs.current_report_id # 0 THEN 8 ELSE 0

\* the layout of the current report before the item at prs.offset
CurrentLayout ==
  IF prs.current_report_id \in DOMAIN prs.tmp_layouts
  THEN prs.tmp_layouts[prs.current_report_id]
  ELSE ZeroLayout

\* the item at prs.offset is a variable Input item on the Generic Desktop
\* page, and the two items before it are Usage (X) and Usage (Y)
InputAfterUsageXY ==
  /\ AtItem /\ ItemPrefix = 129 /\ ItemData % 2 = 1 /\ (ItemData \div 2) % 2 = 1
  /\ prs.usage_page = 1
  /\ prs.offset >= 4
  /\ SubSeq(dev.desc, prs.offset - 3, prs.offset) = <<9, 48, 9, 49>>

\* C25: a variable Input field of report_count 2 and report_size s declared
\* after Usage (X) and Usage (Y), in a report that has no X or Y yet, puts X
\* at the field's base offset and Y at base + s, both of size s
C25_BareUsagesTakeSlotsInTurn ==
  [][(/\ ItemStep /\ InputAfterUsageXY /\ prs.report_count = 2
      /\ CurrentLayout.x_size = 0 /\ CurrentLayout.y_size = 0)
       => LET l == prs'.tmp_layouts[prs.current_report_id]
          IN /\ l.x_bit_offset = CurrentBits /\ l.x_size = prs.report_size
             /\ l.y_bit_offset = CurrentBits + prs.report_size
             /\ l.y_size = prs.report_size]_vars
(* ---- C26 ---- *)
\* a parser step that ends the processing of an Input item: the step over a
\* constant or plain Input item, or the last step of the usage loop
InputItemDone ==
  \/ /\ ItemStep
     /\ item_type_of(ItemPrefix) = 0 /\ item_tag_of(ItemPrefix) = 8
     /\ prs'.pc = "item"
  \/ /\ pcH \in {"detect", "layouts"}
     /\ prs.pc = "usage" /\ prs'.pc = "item"

\* C26: every Input item, field or constant, recognised or not, advances the
\* bit offset of the current report by report_count * report_size
C26_EveryInputAdvances ==
  [][InputItemDone => CurrentBits' = CurrentBits + prs.report_count * prs.report_size]_vars
(* ---- C27 ---- *)
\* a parser step that ends the processing of a Main item (Input, Output,
\* Feature, Collection, End Collection)
MainItemDone ==
  \/ InputItemDone
  \/ ItemStep /\ item_type_of(ItemPrefix) = 0 /\ prs'.pc = "item"

\* C27: after every Main item no Usage and no Usage Minimum / Maximum range
\* is pending
C27_LocalsResetAfterMain ==
  [][MainItemDone => prs'.last_usage = 0 /\ ~prs'.have_usage_min_max]_vars
(* ---- C28 ---- *)
\* the bits [a, a + m) and [b, b + n) have none in common
Apart(a, m, b, n) == m = 0 \/ n = 0 \/ a + m <= b \/ b + n <= a

FieldsDisjoint(l) ==
  /\ Apart(l.buttons_bit_offset, l.buttons_count, l.x_bit_offset, l.x_size)
  /\ Apart(l.buttons_bit_offset, l.buttons_count, l.y_bit_offset, l.y_size)
  /\ Apart(l.buttons_bit_offset, l.buttons_count, l.wheel_bit_offset, l.wheel_size)
  /\ Apart(l.x_bit_offset, l.x_size, l.y_bit_offset, l.y_size)
  /\ Apart(l.x_bit_offset, l.x_size, l.wheel_bit_offset, l.wheel_size)
  /\ Apart(l.y_bit_offset, l.y_size, l.wheel_bit_offset, l.wheel_size)

\* C28: in every layout a parser returns, two fields of non-zero size among
\* buttons, X, Y and wheel share no bit
C28_FieldsDisjoint ==
  /\ (pcH = "detect" /\ prs.pc = "done") => FieldsDisjoint(SingleLayoutResult(prs).layout)
  /\ (pcH = "layouts" /\ prs.pc = "done") =>
       \A j \in 1..Len(LayoutsResult(prs, MAX_MOUSE_LAYOUTS)) :
          FieldsDisjoint(LayoutsResult(prs, MAX_MOUSE_LAYOUTS)[j])
(* ---- C29 ---- *)
\* the layouts the catalog offers for a report: those of the report id in the
\* first byte when a layout of the catalog has a report id, those without
\* report id otherwise
LayoutsFor(data) ==
  IF \E j \in 1..g_mouse_layout_count : g_mouse_layouts[j].report_id # 0
  THEN {j \in 1..g_mouse_layout_count : g_mouse_layouts[j].report_id = data[1]}
  ELSE {j \in 1..g_mouse_layout_count : g_mouse_layouts[j].report_id = 0}

\* C29: an input report whose layout has more bits than the whole report
\* (report id byte included, so all the more than its payload) is rejected:
\* mouse_accumulator_add is not called for it
C29_ShortReportRejected ==
  (/\ rx.to = "mouse" /\ Len(rx.data) > 0
   /\ LayoutsFor(rx.data) # {}
   /\ \A j \in LayoutsFor(rx.data) :
         g_mouse_layouts[j].report_size_bits > 8 * Len(rx.data))
    => ~rx.accepted
(* ---- C30 ---- *)
\* C30: when the catalog has a layout for an input report (and the report has
\* the bits that layout needs), the report is decoded with a layout of the
\* catalog, not with a fixed layout chosen by its length, also when it is 3
\* or 4 bytes long
C30_CatalogBeforeFallback ==
  (/\ rx.to = "mouse" /\ Len(rx.data) >= 3
   /\ \E j \in LayoutsFor(rx.data) :
         g_mouse_layouts[j].report_size_bits <= 8 * Len(rx.data))
    => rx.accepted /\ rx.use_layout \in LayoutsFor(rx.data)

\* hid_device_type_detect returns: the single-layout parser has finished and
\* the classification is written
DetectStep == pcH = "detect" /\ pcH' = "register"

\* some report of the descriptor has an X and a Y field
SomeLayoutHasXY ==
  \E rid \in DOMAIN prs.tmp_layouts :
     prs.tmp_layouts[rid].x_size > 0 /\ prs.tmp_layouts[rid].y_size > 0

\* C31: when some report layout parsed from the descriptor has both an X and a
\* Y field of non-zero size, the classifier reports pointing, with or without
\* buttons in that layout and with or without a Mouse application collection
C31_LayoutHeuristicSetsPointing ==
  [][DetectStep /\ SomeLayoutHasXY => det'.is_mouse]_vars

\* some report of the descriptor has buttons, an X and a Y field
SomeLayoutHasButtonsXY ==
  \E rid \in DOMAIN prs.tmp_layouts : LET l == prs.tmp_layouts[rid]
                                      IN l.buttons_count > 0 /\ l.x_size > 0 /\ l.y_size > 0

\* C32: for a descriptor with a pointing layout (buttons, X and Y) and a
\* Keyboard application collection with at least 3 key-code inputs the
\* classifier reports keyboard as well as pointing
C32_BothSignalsContribute ==
  [][DetectStep /\ SomeLayoutHasButtonsXY /\ KeysInKeyboardCollection(dev.desc) >= 3
       => det'.is_keyboard /\ det'.is_mouse]_vars

\* C33: when the send of a tick returned ESP_ERR_INVALID_STATE (notifications
\* not enabled) and neither a push nor a clear has run since the tick began,
\* the tick has committed as after ESP_OK: the previewed events are out of the
\* ring, the residuals are what the report left over and last_known_buttons
\* is the button state of the report
C33_NotReadyCommits ==
  (pcT = "idle" /\ last.ret = "ESP_ERR_INVALID_STATE" /\ ~interf) =>
     /\ count = snap.now.count - last.k
     /\ residual_dx = last.sum_dx - last.dx
     /\ residual_dy = last.sum_dy - last.dy
     /\ residual_wheel = last.sum_wheel - last.wheel
     /\ last_known_buttons = last.btn

\* the widths above 32 the check asks for
WiderThan32 == 33..40
\* the bit offset of the last three bytes of the last input report: a read of
\* 32 bits or more from there runs 8 bits or more past the end of the buffer
TailOffset == 8 * (Len(rx.data) - 3)

\* C34: get_bits_u32 asked for more than 32 bits returns what it returns for
\* 32 bits at the same offset (here the last 24 bits of the report, the bits
\* past the end of the buffer reading as zero)
C34_WidthClampedTo32 ==
  (rx.to = "mouse" /\ Len(rx.data) >= 3) =>
     \A w \in WiderThan32 :
        get_bits_u32(rx.data, Len(rx.data), TailOffset, w)
          = get_bits_u32(rx.data, Len(rx.data), TailOffset, 32)

\* a descriptor parser run from state p to its return
RECURSIVE ParseAll(_, _)
ParseAll(p, desc) ==
  IF p.pc = "item" THEN ParseAll(ParseItem(p, desc), desc)
  ELSE IF p.pc = "usage" THEN ParseAll(UsageLoop(p, desc), desc)
  ELSE p

\* the catalog parse_hid_report_descriptor_layouts builds from a descriptor
\* (none for a descriptor that cannot be read)
OwnLayouts(desc) ==
  IF Len(desc) = 0 THEN <<>>
  ELSE LayoutsResult(ParseAll([ZeroParser EXCEPT !.pc = "item", !.mode = "layouts"], desc),
                     MAX_MOUSE_LAYOUTS)

\* an input report arrives
ReportStep == reports_seen' = reports_seen + 1

\* C35: an input report that is decoded with a layout is decoded with a
\* layout parsed from the descriptor of the device that sent it, never with a
\* layout left from a device that was detached before
C35_NoLayoutOfEarlierDevice ==
  [][ReportStep /\ rx'.to = "mouse" /\ rx'.use_layout # 0
       => g_mouse_layouts = OwnLayouts(dev.desc)]_vars

\* C36: mouse_accumulator_is_ble_connected() is true only while the BLE link
\* is up and its authentication completed with success
C36_SinkReadyOnlyWhenAuthenticated ==
  sec_conn => ble_connected /\ auth_success

\* mouse_accumulator_clear has run and has returned
ClearReturned == disconnects > 0 /\ pcB = "idle"
\* no ring_push since the clear: head, which the clear set to 0 and only a
\* push advances (MaxPushes pushes do not wrap it), is still 0
NoPushSinceClear == head = 0

\* C37: once mouse_accumulator_clear has returned and no try_send is in
\* flight, with no push since the clear, the residuals and last_known_buttons
\* are zero and the ring is empty
C37_ClearSurvivesCommit ==
  (ClearReturned /\ pcT = "idle" /\ NoPushSinceClear) =>
     /\ residual_dx = 0 /\ residual_dy = 0 /\ residual_wheel = 0
     /\ last_known_buttons = 0
     /\ count = 0

\* C38: with no device attached (every attached device has been disconnected)
\* usb_hid_devices records no handle, neither keyboard_handle nor
\* mouse_handle, so set_led_color shows no USB device
C38_NoHandleOfDetachedDevice ==
  pcH = "detached" => ~keyboard_handle /\ ~mouse_handle

\* the rollback of the simple try_send: the send failed
SimpleRollbackStep == taken.pc = "send" /\ taken'.pc = "idle" /\ taken'.ret # "ESP_OK"

\* C39: after the rollback of a failed send the simple accumulator holds the
\* totals it held when try_send took them plus everything added since, and
\* its buttons are those of the most recent mouse_accumulator_add
C39_RollbackKeepsConcurrentInput ==
  [][SimpleRollbackStep =>
       /\ g_accumulator'.acc_dx = simple_hist.pre_dx + simple_hist.added_dx
       /\ g_accumulator'.acc_dy = simple_hist.pre_dy + simple_hist.added_dy
       /\ g_accumulator'.acc_wheel = simple_hist.pre_wheel + simple_hist.added_wheel
       /\ g_accumulator'.buttons = simple_hist.last_add_buttons]_vars

\* C40: a tick of a ready sink whose send did not fail, with no push and no
\* clear since it began, leaves the ring empty: every event in the ring has
\* t_us <= t_now (the clock does not run backwards), also the events with
\* zero motion and no button change
C40_TickRemovesPastEvents ==
  (pcT = "idle" /\ last.kind \in {"nodata", "sent"} /\ ~interf) => count = 0
====
